---- MODULE Spec2Model ----
(***************************************************************************)
(* Model of windows_registry_search: the crawl engine (worker_manager.rs), *)
(* the runtime supervisor (worker_runtime.rs), the F5 start/stop toggle    *)
(* (static_selection.rs, controls.rs), the search-term tracker             *)
(* (search_term_tracker.rs) and the three loops that end with the process  *)
(* stop flag (controls.rs, renderer.rs, worker_runtime.rs).                *)
(***************************************************************************)
EXTENDS Integers, Sequences, FiniteSets, TLC

\* ---------------------------------------------------------------- bounds
MaxKeys == 3
LiveKeys == 2
SysKeys == 2
MaxThreads == 2
MaxTasks == 2
CrawlKeys == 2
RunKeys == 1
TickMs == 50
MaxBuffer == 1
MaxBytes == 6

\* ------------------------------------------------------ program constants
ChannelCapacity == 1
NumCpus == 2
DEBOUNCE == 100

\* ----------------------------------------------------------------- state
VARIABLES
    registry,                   \* registry[k] = parent key of key k, 0 = the hive itself
    threads,                    \* WorkerManager.threads
    key_queue,                  \* WorkerManager.key_queue
    threads_waiting_for_work,   \* WorkerManager.threads_waiting_for_work
    wpc,                        \* position of each run_thread task
    key_pair,                   \* the item a worker holds (0 = none)
    work_ready,                 \* per worker: its work_ready_for_processing.notified() future
    no_work,                    \* per worker: its no_work_left.notified() future
    spc,                        \* position of run()
    running,                    \* StaticSelection.running
    run_control_temporarily_disabled, \* StaticSelection.run_control_temporarily_disabled
    stop,                       \* StaticSelection.stop
    timer,                      \* StaticSelection.timer: "none", "started" = (start, None), "ended" = (start, Some(end))
    rx,                         \* tokens in the run-request channel
    rpc,                        \* position of worker_runtime
    hpc,                        \* position of the F5 key handler of controls
    tasks,                      \* positions of the tasks spawned by toggle_running
    press_disabled,             \* history: run_control_temporarily_disabled when the last F5 press was read
    quiet,                      \* history: no key handler step since run() last returned to worker_runtime
    hive,                       \* what the registry holds: per key its name, whether it opens, its enumeration results
    wm_search_terms,            \* WorkerManager.search_terms
    results,                    \* StaticSelection.results
    KEY_COUNT,                  \* KEY_COUNT
    VALUE_COUNT,                \* VALUE_COUNT
    key_oks,                    \* history: Ok results of the child-key enumerations of this crawl
    value_oks,                  \* history: Ok results of the value enumerations of this crawl
    errors,                     \* WorkerManager.errors
    popped,                     \* history: how often each key was taken from the queue
    search_terms,               \* SearchTermTracker.search_terms
    search_term_selected,       \* SearchTermTracker.search_term_selected
    search_term_elapsed,        \* SearchTermTracker.search_term_last_changed.elapsed() in ms, kept up to DEBOUNCE
    last_call,                  \* history: the last call made on the tracker and the state it found
    focus,                      \* the Focus shared by controls and the renderer
    process_stop,               \* the process-wide stop flag
    dpc,                        \* position of the renderer
    tx_closed,                  \* the run-request channel has no sender left
    pane_selected,              \* StaticSelection.pane_selected
    pane_elapsed,               \* StaticSelection.pane_last_changed.elapsed() in ms, kept up to DEBOUNCE
    root_selected,              \* StaticSelection.root_selected
    root_elapsed,               \* StaticSelection.root_selection_last_changed.elapsed() in ms, kept up to DEBOUNCE
    last_move,                  \* history: the last pane or hive move and the state it found
    editor,                     \* the Option<SearchEditor> made for the last SearchMod: {} is None
    session,                    \* history: what the last SearchMod found when entered, and how it was left
    locks,                      \* per RwLock: who holds it, and how
    drawn_focus,                \* renderer: its copy of the focus
    key_code,                   \* controls: the key it has read and not yet handled
    reg_value,                  \* the RegValue handed to alt_reg_value_to_string
    stringified,                \* the String it returned: {} before the call
    local_machine,              \* SelectedRoots.local_machine
    snapshot                    \* history: the selection and the terms worker_runtime read

engineVars == <<registry, threads, key_queue, threads_waiting_for_work, wpc,
                key_pair, work_ready, no_work, spc>>

flagVars == <<running, run_control_temporarily_disabled, stop, timer>>

controlVars == <<rx, rpc, hpc, tasks>>

historyVars == <<press_disabled, quiet>>

crawlVars == <<hive, wm_search_terms, results, KEY_COUNT, VALUE_COUNT, key_oks, value_oks,
               errors, popped>>

trackerVars == <<search_terms, search_term_selected, search_term_elapsed, last_call>>

shellVars == <<focus, process_stop, dpc, tx_closed>>

cursorVars == <<pane_selected, pane_elapsed, root_selected, root_elapsed, last_move>>

editorVars == <<editor, session>>

lockVars == <<locks, drawn_focus, key_code>>

\* the value being stringified and its string
valueVars == <<reg_value, stringified>>

\* the cursors of the panes, the editor, the locks and the value
\* the selection of the hive and what the last crawl was started with
rootVars == <<local_machine, snapshot>>

uiVars == <<cursorVars, editorVars, lockVars, valueVars, rootVars>>

\* everything outside the engine, the flags and the key handler
sideVars == <<crawlVars, trackerVars, shellVars, uiVars>>

\* everything outside the engine and its crawl
outerVars == <<flagVars, controlVars, historyVars, trackerVars, shellVars, uiVars>>

vars == <<registry, threads, key_queue, threads_waiting_for_work, wpc,
          key_pair, work_ready, no_work, spc,
          running, run_control_temporarily_disabled, stop, timer,
          rx, rpc, hpc, tasks, press_disabled, quiet,
          hive, wm_search_terms, results, KEY_COUNT, VALUE_COUNT, key_oks, value_oks,
          errors, popped,
          search_terms, search_term_selected, search_term_elapsed, last_call,
          focus, process_stop, dpc, tx_closed,
          pane_selected, pane_elapsed, root_selected, root_elapsed, last_move,
          editor, session, locks, drawn_focus, key_code,
          reg_value, stringified,
          local_machine, snapshot>>

\* --------------------------------------------------------------- registry
RegistriesOfSize(n) == {r \in [1..n -> 0..(n - 1)] : \A k \in 1..n : r[k] < k}

Registries(max) == UNION {RegistriesOfSize(n) : n \in 0..max}

\* the subkeys of key k in enumeration order (k = 0: the top-level subkeys)
EnumKeys(reg, k) == SelectSeq([i \in 1..Len(reg) |-> i], LAMBDA i : reg[i] = k)

Workers == 1..threads

\* ---------------------------------------------------------------- strings
\* A string is the sequence of its characters.
\* char::to_lowercase on the characters used here
LowerChar(c) ==
    CASE c = "A" -> "a"
      [] c = "B" -> "b"
      [] c = "D" -> "d"
      [] c = "N" -> "n"
      [] OTHER -> c

\* str::to_lowercase
ToLowercase(string) == [i \in 1..Len(string) |-> LowerChar(string[i])]

\* str::contains: term occurs in string as a substring
Contains(string, term) ==
    \E i \in 0..(Len(string) - Len(term)) : SubSeq(string, i + 1, i + Len(term)) = term

\* WorkerManager::new: search_terms.into_iter().map(|term| term.to_lowercase())
NewSearchTerms(terms) == {ToLowercase(term) : term \in terms}

\* string_matches with every string accepted
StringMatchesAll(string) == TRUE

\* string_matches without the lowercasing of the string
StringMatchesCased(string) == \E term \in wm_search_terms : Contains(string, term)

\* string_matches reading the tracker's terms
StringMatchesLive(string) ==
    \E term \in search_terms : Contains(ToLowercase(string), ToLowercase(term))

\* WorkerManager::string_matches
StringMatches(string) ==
    \E term \in wm_search_terms : Contains(ToLowercase(string), term)

\* WorkerManager::any_string_matches
AnyStringMatches(string, string2) ==
    \E term \in wm_search_terms :
        \/ Contains(ToLowercase(string), term)
        \/ Contains(ToLowercase(string2), term)

\* the zero byte
NUL == "\\0"

\* the number a byte is, for the bytes used here
ByteValue(b) ==
    CASE b = NUL -> 0
      [] b = "A" -> 65
      [] b = "B" -> 66
      [] b = "a" -> 97
      [] b = "b" -> 98
      [] b = "c" -> 99

\* u32::from_le_bytes, u64::from_le_bytes
RECURSIVE FromLeBytes(_)
FromLeBytes(bytes) ==
    IF bytes = <<>> THEN 0 ELSE ByteValue(Head(bytes)) + 256 * FromLeBytes(Tail(bytes))

\* u32::from_be_bytes
FromBeBytes(bytes) == FromLeBytes([i \in 1..Len(bytes) |-> bytes[Len(bytes) + 1 - i]])

\* u32::to_string, u64::to_string, usize::to_string
RECURSIVE U64ToString(_)
U64ToString(n) ==
    LET digit == <<"0", "1", "2", "3", "4", "5", "6", "7", "8", "9">>[(n % 10) + 1]
    IN IF n < 10 THEN <<digit>> ELSE U64ToString(n \div 10) \o <<digit>>

\* slice::split(|&b| b == 0): the pieces between the zero bytes, an empty piece
\* after a zero byte that ends the slice
RECURSIVE Split(_)
Split(bytes) ==
    IF \A i \in 1..Len(bytes) : bytes[i] # NUL
    THEN <<bytes>>
    ELSE LET at == CHOOSE i \in 1..Len(bytes) :
                      bytes[i] = NUL /\ \A j \in 1..(i - 1) : bytes[j] # NUL
         IN <<SubSeq(bytes, 1, at - 1)>> \o Split(SubSeq(bytes, at + 1, Len(bytes)))

\* [&str]::join(", ")
RECURSIVE Join(_)
Join(pieces) ==
    IF pieces = <<>> THEN <<>>
    ELSE IF Len(pieces) = 1 THEN pieces[1]
    ELSE pieces[1] \o <<",", " ">> \o Join(Tail(pieces))

\* the text of a kind of value
Kind(vtype) ==
    CASE vtype = "REG_DWORD" -> <<"R", "E", "G", "_", "D", "W", "O", "R", "D">>
      [] vtype = "REG_DWORD_BIG_ENDIAN" ->
            <<"R", "E", "G", "_", "D", "W", "O", "R", "D",
              "_", "B", "I", "G", "_", "E", "N", "D", "I", "A", "N">>
      [] vtype = "REG_QWORD" -> <<"R", "E", "G", "_", "Q", "W", "O", "R", "D">>

\* the text returned when try_into() fails: "Invalid " and the kind written there
Invalid(vtype) == <<"I", "n", "v", "a", "l", "i", "d", " ">> \o Kind(vtype)

\* alt_reg_value_to_string; the bytes used here are ASCII, which from_utf8 and
\* from_utf8_lossy decode byte by byte (REG_LINK and the two descriptor kinds
\* go to winreg's own to_string and are left out)
AltRegValueToString(value) ==
    CASE value.vtype \in {"REG_SZ", "REG_EXPAND_SZ"} -> value.bytes
      [] value.vtype = "REG_BINARY" ->
            <<"B", "I", "N", "_", "L", "E", "N", "G", "T", "H", ":", " ">>
                \o U64ToString(Len(value.bytes))
      [] value.vtype = "REG_DWORD" ->
            IF Len(value.bytes) = 4 THEN U64ToString(FromLeBytes(value.bytes))
            ELSE Invalid("REG_DWORD")
      [] value.vtype = "REG_DWORD_BIG_ENDIAN" ->
            IF Len(value.bytes) = 4 THEN U64ToString(FromBeBytes(value.bytes))
            ELSE Invalid("REG_DWORD_BIG_ENDIAN")
      [] value.vtype = "REG_QWORD" ->
            IF Len(value.bytes) = 8 THEN U64ToString(FromLeBytes(value.bytes))
            ELSE Invalid("REG_DWORD")
      [] value.vtype \in {"REG_MULTI_SZ", "REG_RESOURCE_LIST"} -> Join(Split(value.bytes))
      [] value.vtype = "REG_NONE" -> <<"N", "o", "n", "e">>

\* Root::to_string of the one hive that is crawled
RootName == <<"HKEY_LOCAL_MACHINE">>

\* the name of a value as enum_values() gave it
ShownNameAsIs(value_name) == value_name

\* the name a value line shows: "(Default)" for the empty name
\* (REGEDIT_OUTPUT_FOR_BLANK_NAMES is true)
ShownName(value_name) ==
    IF value_name = <<>>
    THEN <<"(", "D", "e", "f", "a", "u", "l", "t", ")">>
    ELSE value_name

\* format!("{}\\{}", root_name, &key_path)
KeyLine(key_path) == RootName \o <<"\\">> \o key_path

\* format!("{}\\{}\\{} = \"{}\" ({:?})", root_name, &key_path, value_name, data, vtype)
ValueLine(key_path, value_name, data, vtype) ==
    RootName \o <<"\\">> \o key_path \o <<"\\">> \o value_name
        \o <<" = \"">> \o data \o <<"\" (", vtype, ")">>

\* ------------------------------------------------------ registry contents
\* an enumeration result of enum_values(): Ok((name, RegValue)) or Err
OkValue(name, vtype, bytes) == [ok |-> TRUE, name |-> name, vtype |-> vtype, bytes |-> bytes]

ErrValue == [ok |-> FALSE, name |-> <<>>, vtype |-> "REG_NONE", bytes |-> <<>>]

\* a key that opens and holds nothing
PlainKey == [name |-> <<"k">>, opens |-> TRUE, enum_errors |-> 0, values |-> <<>>]

\* the keys a hive is built from: a mixed-case name; an unnamed (default) value
\* with mixed-case data; a key that does not open; a key whose enumerations
\* also yield error results
KeyKinds ==
    { [name |-> <<"A", "b">>, opens |-> TRUE, enum_errors |-> 0, values |-> <<>>],
      [name |-> <<"c">>, opens |-> TRUE, enum_errors |-> 0,
       values |-> <<OkValue(<<>>, "REG_SZ", <<"a", "B">>)>>],
      [name |-> <<"c">>, opens |-> FALSE, enum_errors |-> 0, values |-> <<>>],
      [name |-> <<"b">>, opens |-> TRUE, enum_errors |-> 1,
       values |-> <<ErrValue, OkValue(<<"B">>, "REG_NONE", <<>>)>>] }

\* the term sets a crawl is started with, as the user typed them
TermSets == { {<<"A", "B">>}, {<<"c">>, <<"b">>}, {<<"D">>} }

\* the hive with tree reg in which nothing matches and nothing fails
PlainHive(reg) == [root_errors |-> 0, keys |-> [k \in 1..Len(reg) |-> PlainKey]]

\* the failures a hive holds: error results of the top-level enumeration, keys
\* that do not open, keys whose enumerations yield error results
Faults(h) ==
    h.root_errors
        + Cardinality({k \in DOMAIN h.keys : ~h.keys[k].opens \/ h.keys[k].enum_errors > 0})

\* the hives with tree reg: any keys, and a failure in at most one place
Hives(reg) ==
    {h \in [root_errors : 0..1, keys : [1..Len(reg) -> KeyKinds]] : Faults(h) <= 1}

\* what a failed open_subkey_with_flags() leaves out
KeyErrorsNone(key_path) == {}

\* the error a failed open_subkey_with_flags() inserts
KeyErrors(key_path) == {key_path \o <<": ">> \o RootName \o <<", Key error">>}

\* the error the Err results of enum_keys() insert: one text however many
SubkeyErrors(path, count) ==
    IF count > 0 THEN {path \o <<", Subkey error">>} ELSE {}

\* the error the Err results of enum_values() insert
ValueErrors(key_path, value_results) ==
    IF \E i \in 1..Len(value_results) : ~value_results[i].ok
    THEN {key_path \o <<", Value error">>}
    ELSE {}

\* the path of key k below the hive, as the work items carry it: the top-level
\* name (worker_runtime) extended by format!("{}\\{}", &key_path, key_name)
RECURSIVE KeyPath(_)
KeyPath(k) ==
    IF registry[k] = 0
    THEN hive.keys[k].name
    ELSE KeyPath(registry[k]) \o <<"\\">> \o hive.keys[k].name

\* ------------------------------------------------------------- the engine
\* notify_waiters(): every future that is registered is completed
NotifyWaiters(futures) ==
    [w \in DOMAIN futures |-> IF futures[w] = "reg" THEN "fired" ELSE futures[w]]

\* worker_runtime(): `for root in roots`, roots being export_roots() of the
\* selection: the Ok results of the hive's enum_keys() if the hive is enabled
Work(reg) == IF local_machine THEN EnumKeys(reg, 0) ELSE <<>>

\* worker_runtime(): the Err results of the same enumeration
RootErrors == IF local_machine THEN hive.root_errors ELSE 0

\* a set of its own for every WorkerManager
NewSet(shared) == {}

\* static_menu_selection.results.to_owned(): a clone of the Arc, the one set the
\* shell and every WorkerManager share
ToOwned(shared) == shared

\* worker_runtime(): the terms are snapshotted into WorkerManager::new, every
\* enumeration result of the hive is counted and the Ok ones are fed to the
\* queue: the state run() starts from
EngineReady(reg, n) ==
    /\ registry' = reg
    /\ threads' = n
    /\ key_queue' = Work(reg)
    /\ threads_waiting_for_work' = 0
    /\ wpc' = [w \in 1..n |-> "unspawned"]
    /\ key_pair' = [w \in 1..n |-> 0]
    /\ work_ready' = [w \in 1..n |-> "none"]
    /\ no_work' = [w \in 1..n |-> "none"]
    /\ spc' = "spawn"
    /\ wm_search_terms' = NewSearchTerms(search_terms)
    /\ KEY_COUNT' = KEY_COUNT + Len(Work(reg)) + RootErrors
    /\ key_oks' = key_oks + Len(Work(reg))
    /\ errors' = SubkeyErrors(RootName, RootErrors)
    /\ popped' = [k \in 1..Len(reg) |-> 0]
    /\ results' = ToOwned(results)
    /\ UNCHANGED <<hive, VALUE_COUNT, value_oks>>

\* run(): for _ in 0..threads { tokio::spawn(run_thread(..)) }
RunSpawn ==
    /\ spc = "spawn"
    /\ wpc' = [w \in Workers |-> "pop"]
    /\ spc' = "notify"
    /\ UNCHANGED <<registry, threads, key_queue, threads_waiting_for_work,
                   key_pair, work_ready, no_work>>
    /\ UNCHANGED <<outerVars, crawlVars>>

\* run(): work_ready_for_processing.notify_waiters() before the loop
RunNotify ==
    /\ spc = "notify"
    /\ work_ready' = NotifyWaiters(work_ready)
    /\ spc' = "load"
    /\ UNCHANGED <<registry, threads, key_queue, threads_waiting_for_work,
                   wpc, key_pair, no_work>>
    /\ UNCHANGED <<outerVars, crawlVars>>

\* a waiter count that is satisfied by one waiting worker
SomeWaiting == threads_waiting_for_work >= 1

\* the waiter count that makes run() look at the queue
AllWaiting == threads_waiting_for_work = threads

\* run(): if threads_waiting_for_work.load() == threads
RunLoad ==
    /\ spc = "load"
    /\ spc' = IF AllWaiting THEN "len" ELSE "sleep"
    /\ UNCHANGED <<registry, threads, key_queue, threads_waiting_for_work,
                   wpc, key_pair, work_ready, no_work>>
    /\ UNCHANGED <<outerVars, crawlVars>>

\* the queue test of run() inverted
QueueDrainedInverted == Len(key_queue) # 0

\* the queue test of run()
QueueDrained == Len(key_queue) = 0

\* run(): if key_queue.lock().len() == 0
RunLen ==
    /\ spc = "len"
    /\ spc' = IF QueueDrained THEN "fire" ELSE "recover"
    /\ UNCHANGED <<registry, threads, key_queue, threads_waiting_for_work,
                   wpc, key_pair, work_ready, no_work>>
    /\ UNCHANGED <<outerVars, crawlVars>>

\* run(): no_work_left.notify_waiters(); break
\*        else work_ready_for_processing.notify_waiters()
RunSignal ==
    /\ spc \in {"fire", "recover"}
    /\ IF spc = "fire"
       THEN /\ no_work' = NotifyWaiters(no_work)
            /\ spc' = "returned"
            /\ UNCHANGED work_ready
       ELSE /\ work_ready' = NotifyWaiters(work_ready)
            /\ spc' = "sleep"
            /\ UNCHANGED no_work
    /\ UNCHANGED <<registry, threads, key_queue, threads_waiting_for_work,
                   wpc, key_pair>>
    /\ UNCHANGED <<outerVars, crawlVars>>

\* run(): tokio::time::sleep(100 ms).await, then the next iteration
RunSleep ==
    /\ spc = "sleep"
    /\ spc' = "load"
    /\ UNCHANGED <<registry, threads, key_queue, threads_waiting_for_work,
                   wpc, key_pair, work_ready, no_work>>
    /\ UNCHANGED <<outerVars, crawlVars>>

\* a queue whose front item was read and left in place
PopFrontKept(queue) == queue

\* VecDeque::pop_front(): the queue without its front item
PopFront(queue) == Tail(queue)

\* get_work(): key_queue.lock().pop_front()
GetWorkPop(w) ==
    /\ wpc[w] = "pop"
    /\ IF Len(key_queue) > 0
       THEN /\ key_pair' = [key_pair EXCEPT ![w] = Head(key_queue)]
            /\ key_queue' = PopFront(key_queue)
            /\ popped' = [popped EXCEPT ![Head(key_queue)] = @ + 1]
            /\ wpc' = [wpc EXCEPT ![w] = "feed"]
       ELSE /\ wpc' = [wpc EXCEPT ![w] = "incr"]
            /\ UNCHANGED <<key_pair, key_queue, popped>>
    /\ UNCHANGED <<registry, threads, threads_waiting_for_work, work_ready, no_work, spc>>
    /\ UNCHANGED <<outerVars, hive, wm_search_terms, results, KEY_COUNT, VALUE_COUNT,
                   key_oks, value_oks, errors>>

\* get_work(): threads_waiting_for_work.fetch_add(1)
GetWorkIncr(w) ==
    /\ wpc[w] = "incr"
    /\ threads_waiting_for_work' = threads_waiting_for_work + 1
    /\ wpc' = [wpc EXCEPT ![w] = "select"]
    /\ UNCHANGED <<registry, threads, key_queue, key_pair, work_ready, no_work, spc>>
    /\ UNCHANGED <<outerVars, crawlVars>>

\* get_work(): select! starts listening on work_ready_for_processing.notified().
\* notify_waiters() stores no permit: it completes only the futures that listen
\* already, and the two futures of select! start listening one after the other,
\* after the fetch_add.
SelectListenWork(w) ==
    /\ wpc[w] = "select"
    /\ work_ready[w] = "none"
    /\ work_ready' = [work_ready EXCEPT ![w] = "reg"]
    /\ UNCHANGED <<registry, threads, key_queue, threads_waiting_for_work,
                   wpc, key_pair, no_work, spc>>
    /\ UNCHANGED <<outerVars, crawlVars>>

\* get_work(): select! starts listening on no_work_left.notified()
SelectListenNoWork(w) ==
    /\ wpc[w] = "select"
    /\ no_work[w] = "none"
    /\ no_work' = [no_work EXCEPT ![w] = "reg"]
    /\ UNCHANGED <<registry, threads, key_queue, threads_waiting_for_work,
                   wpc, key_pair, work_ready, spc>>
    /\ UNCHANGED <<outerVars, crawlVars>>

\* get_work(): the work_ready branch of select! completes; both futures are dropped
SelectWorkReady(w) ==
    /\ wpc[w] = "select"
    /\ work_ready[w] = "fired"
    /\ wpc' = [wpc EXCEPT ![w] = "decr"]
    /\ work_ready' = [work_ready EXCEPT ![w] = "none"]
    /\ no_work' = [no_work EXCEPT ![w] = "none"]
    /\ UNCHANGED <<registry, threads, key_queue, threads_waiting_for_work, key_pair, spc>>
    /\ UNCHANGED <<outerVars, crawlVars>>

\* get_work(): the no_work_left branch completes: return None, run_thread breaks
SelectNoWorkLeft(w) ==
    /\ wpc[w] = "select"
    /\ no_work[w] = "fired"
    /\ wpc' = [wpc EXCEPT ![w] = "exited"]
    /\ work_ready' = [work_ready EXCEPT ![w] = "none"]
    /\ no_work' = [no_work EXCEPT ![w] = "none"]
    /\ UNCHANGED <<registry, threads, key_queue, threads_waiting_for_work, key_pair, spc>>
    /\ UNCHANGED <<outerVars, crawlVars>>

\* get_work() without its fetch_sub: a woken worker stays counted as a waiter
GetWorkDecrLost(w) ==
    /\ wpc[w] = "decr"
    /\ wpc' = [wpc EXCEPT ![w] = "pop"]
    /\ UNCHANGED <<registry, threads, key_queue, threads_waiting_for_work,
                   key_pair, work_ready, no_work, spc>>
    /\ UNCHANGED <<outerVars, crawlVars>>

\* get_work(): threads_waiting_for_work.fetch_sub(1), then the next loop iteration
GetWorkDecr(w) ==
    /\ wpc[w] = "decr"
    /\ threads_waiting_for_work' = threads_waiting_for_work - 1
    /\ wpc' = [wpc EXCEPT ![w] = "pop"]
    /\ UNCHANGED <<registry, threads, key_queue, key_pair, work_ready, no_work, spc>>
    /\ UNCHANGED <<outerVars, crawlVars>>

\* feed_queue_and_process_values(): the key line if the path matches; open the
\* subkey (on failure the item is dropped); count every result of enum_keys()
\* and feed_queue() the Ok ones
FeedQueue(w) ==
    /\ wpc[w] = "feed"
    /\ LET key_path == KeyPath(key_pair[w])
           key_paths == EnumKeys(registry, key_pair[w])
       IN /\ results' = IF StringMatches(key_path)
                         THEN results \cup {KeyLine(key_path)}
                         ELSE results
          /\ IF hive.keys[key_pair[w]].opens
             THEN /\ KEY_COUNT' = KEY_COUNT + Len(key_paths) + hive.keys[key_pair[w]].enum_errors
                  /\ key_oks' = key_oks + Len(key_paths)
                  /\ errors' = errors \cup
                        SubkeyErrors(key_path, hive.keys[key_pair[w]].enum_errors)
                  /\ key_queue' = key_queue \o key_paths
                  /\ wpc' = [wpc EXCEPT ![w] = "notify"]
                  /\ UNCHANGED key_pair
             ELSE /\ errors' = errors \cup KeyErrors(key_path)
                  /\ wpc' = [wpc EXCEPT ![w] = "pop"]
                  /\ key_pair' = [key_pair EXCEPT ![w] = 0]
                  /\ UNCHANGED <<KEY_COUNT, key_oks, key_queue>>
    /\ UNCHANGED <<registry, threads, threads_waiting_for_work, work_ready, no_work, spc,
                   hive, wm_search_terms, VALUE_COUNT, value_oks, popped>>
    /\ UNCHANGED outerVars

\* feed_queue_and_process_values(): work_ready_for_processing.notify_waiters()
FeedNotify(w) ==
    /\ wpc[w] = "notify"
    /\ work_ready' = NotifyWaiters(work_ready)
    /\ wpc' = [wpc EXCEPT ![w] = "values"]
    /\ UNCHANGED <<registry, threads, key_queue, threads_waiting_for_work,
                   key_pair, no_work, spc>>
    /\ UNCHANGED <<outerVars, crawlVars>>

\* feed_queue_and_process_values(): every result of enum_values() is counted;
\* an Ok value whose name or stringified data matches gives a value line; the
\* item is finished
ProcessValues(w) ==
    /\ wpc[w] = "values"
    /\ LET key_path == KeyPath(key_pair[w])
           value_results == hive.keys[key_pair[w]].values
           oks == {i \in 1..Len(value_results) : value_results[i].ok}
           matching == {i \in oks : AnyStringMatches(value_results[i].name,
                                                      AltRegValueToString(value_results[i]))}
       IN /\ VALUE_COUNT' = VALUE_COUNT + Len(value_results)
          /\ value_oks' = value_oks + Cardinality(oks)
          /\ errors' = errors \cup ValueErrors(key_path, value_results)
          /\ results' = results \cup
                {ValueLine(key_path, ShownName(value_results[i].name),
                           AltRegValueToString(value_results[i]), value_results[i].vtype) :
                    i \in matching}
    /\ key_pair' = [key_pair EXCEPT ![w] = 0]
    /\ wpc' = [wpc EXCEPT ![w] = "pop"]
    /\ UNCHANGED <<registry, threads, key_queue, threads_waiting_for_work,
                   work_ready, no_work, spc, hive, wm_search_terms, KEY_COUNT, key_oks,
                   popped>>
    /\ UNCHANGED outerVars

WorkerStep(w) ==
    \/ GetWorkPop(w)
    \/ GetWorkIncr(w)
    \/ SelectListenWork(w)
    \/ SelectListenNoWork(w)
    \/ SelectWorkReady(w)
    \/ SelectNoWorkLeft(w)
    \/ GetWorkDecr(w)
    \/ FeedQueue(w)
    \/ FeedNotify(w)
    \/ ProcessValues(w)

RunStep ==
    \/ RunSpawn
    \/ RunNotify
    \/ RunLoad
    \/ RunLen
    \/ RunSignal
    \/ RunSleep

\* ------------------------------------------- the engine on its own
\* no call has been made on the tracker
NoCall ==
    [op |-> "none", accepted |-> FALSE, mode |-> "Add", original |-> <<>>,
     state |-> <<>>, terms |-> {}, selected |-> 0]

\* SearchTermTracker::default()
TrackerDefault ==
    /\ search_terms = {}
    /\ search_term_selected = 0
    /\ search_term_elapsed = 0
    /\ last_call = NoCall

\* the focus, the stop flag, the renderer and the channel when the program starts
ShellStart ==
    /\ focus = "Main"
    /\ process_stop = FALSE
    /\ dpc = "check"
    /\ tx_closed = FALSE

\* no pane or hive move has been made
NoMove == [op |-> "none", elapsed |-> 0, from |-> 0]

\* no SearchMod has been entered
NoSession == [terms |-> {}, selected |-> 0, edited |-> FALSE, left_by |-> "none"]

\* the RwLocks of the focus, of the editor and of the search-term tracker
LockNames == {"focus", "editor", "search_term_tracker"}

\* SelectedRoots::default() for the hive that is crawled; no crawl was started
RootsDefault ==
    /\ local_machine = TRUE
    /\ snapshot = [local_machine |-> TRUE, search_terms |-> {}]

\* no value is being stringified
NoValue ==
    /\ reg_value = [vtype |-> "REG_NONE", bytes |-> <<>>]
    /\ stringified = {}

\* StaticSelection::default() for the two cursors; no editor, no lock held
UiStart ==
    /\ pane_selected = 0
    /\ pane_elapsed = 0
    /\ root_selected = 0
    /\ root_elapsed = 0
    /\ last_move = NoMove
    /\ editor = {}
    /\ session = NoSession
    /\ locks = [lock \in LockNames |-> {}]
    /\ drawn_focus = "Main"
    /\ key_code = "none"
    /\ NoValue
    /\ RootsDefault

\* the engine as worker_runtime hands it to run(), with results still empty
Seeded ==
    /\ key_queue = EnumKeys(registry, 0)
    /\ threads_waiting_for_work = 0
    /\ wpc = [w \in 1..threads |-> "unspawned"]
    /\ key_pair = [w \in 1..threads |-> 0]
    /\ work_ready = [w \in 1..threads |-> "none"]
    /\ no_work = [w \in 1..threads |-> "none"]
    /\ spc = "spawn"
    /\ wm_search_terms = NewSearchTerms(search_terms)
    /\ results = {}
    /\ KEY_COUNT = Len(EnumKeys(registry, 0)) + hive.root_errors
    /\ key_oks = Len(EnumKeys(registry, 0))
    /\ VALUE_COUNT = 0
    /\ value_oks = 0
    /\ errors = SubkeyErrors(RootName, hive.root_errors)
    /\ popped = [k \in 1..Len(registry) |-> 0]

\* the flags, the key handler and worker_runtime while run() is awaited
DuringRun ==
    /\ running = TRUE
    /\ run_control_temporarily_disabled = FALSE
    /\ stop = FALSE
    /\ timer = "started"
    /\ rx = 0
    /\ rpc = "run"
    /\ hpc = "idle"
    /\ tasks = [t \in 1..MaxTasks |-> "free"]
    /\ press_disabled = FALSE
    /\ quiet = FALSE

EngineStart(max) ==
    /\ registry \in Registries(max)
    /\ threads \in 1..MaxThreads
    /\ hive = PlainHive(registry)
    /\ TrackerDefault
    /\ ShellStart
    /\ UiStart
    /\ Seeded
    /\ DuringRun

EngineInit == EngineStart(MaxKeys)

EngineFairInit == EngineStart(LiveKeys)

EngineNext ==
    \/ RunSpawn
    \/ RunNotify
    \/ RunLoad
    \/ RunLen
    \/ RunSignal
    \/ RunSleep
    \/ \E w \in Workers : GetWorkPop(w)
    \/ \E w \in Workers : GetWorkIncr(w)
    \/ \E w \in Workers : SelectListenWork(w)
    \/ \E w \in Workers : SelectListenNoWork(w)
    \/ \E w \in Workers : SelectWorkReady(w)
    \/ \E w \in Workers : SelectNoWorkLeft(w)
    \/ \E w \in Workers : GetWorkDecr(w)
    \/ \E w \in Workers : FeedQueue(w)
    \/ \E w \in Workers : FeedNotify(w)
    \/ \E w \in Workers : ProcessValues(w)

EngineSpec == EngineInit /\ [][EngineNext]_vars

\* ------------------------------- one crawl of worker_runtime over a hive
\* with contents: the terms typed by the user, NumCpus workers
CrawlInit ==
    /\ registry \in Registries(CrawlKeys)
    /\ threads = NumCpus
    /\ hive \in Hives(registry)
    /\ search_terms \in TermSets
    /\ search_term_selected = 0
    /\ search_term_elapsed = 0
    /\ last_call = NoCall
    /\ ShellStart
    /\ UiStart
    /\ Seeded
    /\ DuringRun

CrawlSpec == CrawlInit /\ [][EngineNext]_vars

\* the same crawl on a machine of any number of logical CPUs up to NumCpus
WorkersInit ==
    /\ registry \in Registries(CrawlKeys)
    /\ threads \in 1..NumCpus
    /\ hive \in Hives(registry)
    /\ search_terms \in TermSets
    /\ search_term_selected = 0
    /\ search_term_elapsed = 0
    /\ last_call = NoCall
    /\ ShellStart
    /\ UiStart
    /\ Seeded
    /\ DuringRun

WorkersSpec == WorkersInit /\ [][EngineNext]_vars

EngineFairSpec ==
    /\ EngineFairInit
    /\ [][EngineNext]_vars
    /\ WF_vars(RunStep)
    /\ \A w \in 1..MaxThreads : WF_vars(w \in Workers /\ WorkerStep(w))

\* ------------------------------------------------- the F5 start/stop toggle
\* toggle_running(): if running.load()
ToggleLoad ==
    /\ hpc = "idle"
    /\ hpc' = IF running THEN "stop_disable" ELSE "start"
    /\ press_disabled' = run_control_temporarily_disabled
    /\ quiet' = FALSE
    /\ UNCHANGED <<engineVars, sideVars, flagVars, rx, rpc, tasks>>

\* toggle_running(): run_control_temporarily_disabled.store(true) of the stop branch
ToggleStopDisable ==
    /\ hpc = "stop_disable"
    /\ run_control_temporarily_disabled' = TRUE
    /\ hpc' = "stop_store"
    /\ quiet' = FALSE
    /\ UNCHANGED <<engineVars, sideVars, running, stop, timer, rx, rpc, tasks, press_disabled>>

\* toggle_running(): stop.store(true)
ToggleStopStore ==
    /\ hpc = "stop_store"
    /\ stop' = TRUE
    /\ hpc' = "idle"
    /\ quiet' = FALSE
    /\ UNCHANGED <<engineVars, sideVars, running, run_control_temporarily_disabled, timer,
                   rx, rpc, tasks, press_disabled>>

\* The start branch that feeds worker_runtime's channel (the sender is not in
\* the sources; the steps follow the key table of the specification).
\* F5 with running = false: running = true
RequestSetRunning ==
    /\ hpc = "start"
    /\ running' = TRUE
    /\ hpc' = "start_timer"
    /\ quiet' = FALSE
    /\ UNCHANGED <<engineVars, sideVars, run_control_temporarily_disabled, stop, timer,
                   rx, rpc, tasks, press_disabled>>

\* F5 with running = false: timer = (now, None)
RequestSetTimer ==
    /\ hpc = "start_timer"
    /\ timer' = "started"
    /\ hpc' = "start_send"
    /\ quiet' = FALSE
    /\ UNCHANGED <<engineVars, sideVars, running, run_control_temporarily_disabled, stop,
                   rx, rpc, tasks, press_disabled>>

\* F5 with running = false: one token on the run-request channel (capacity 1, blocking)
RequestSend ==
    /\ hpc = "start_send"
    /\ rx < ChannelCapacity
    /\ rx' = rx + 1
    /\ hpc' = "idle"
    /\ quiet' = FALSE
    /\ UNCHANGED <<engineVars, sideVars, flagVars, rpc, tasks, press_disabled>>

\* --------------------------------------------------- the runtime supervisor
\* worker_runtime(): rx.recv().await
RuntimeRecv ==
    /\ rpc = "recv"
    /\ rx > 0
    /\ rx' = rx - 1
    /\ rpc' = "seed"
    /\ UNCHANGED <<engineVars, sideVars, flagVars, hpc, tasks, historyVars>>

\* the counters as they are without a reset
ResetSkipped(count) == count

\* AtomicUsize::store(0)
Reset(count) == 0

\* worker_runtime(): KEY_COUNT.store(0); VALUE_COUNT.store(0)
RuntimeReset ==
    /\ rpc = "seed"
    /\ KEY_COUNT' = Reset(KEY_COUNT)
    /\ VALUE_COUNT' = Reset(VALUE_COUNT)
    /\ key_oks' = 0
    /\ value_oks' = 0
    /\ rpc' = "snapshot"
    /\ UNCHANGED <<engineVars, hive, wm_search_terms, results, errors, popped, flagVars, rx, hpc,
                   tasks, historyVars, trackerVars, shellVars, uiVars>>

\* worker_runtime(): the snapshot, WorkerManager::new, the seeding, feed_queue(work)
RuntimeSeed ==
    /\ rpc = "snapshot"
    /\ EngineReady(registry, threads)
    /\ snapshot' = [local_machine |-> local_machine, search_terms |-> search_terms]
    /\ rpc' = "run"
    /\ UNCHANGED <<flagVars, rx, hpc, tasks, historyVars, trackerVars, shellVars,
                   cursorVars, editorVars, lockVars, valueVars, local_machine>>

\* worker_runtime(): run(..).await is over; stop.store(false)
RuntimeClearStop ==
    /\ rpc = "run"
    /\ spc = "returned"
    /\ stop' = FALSE
    /\ rpc' = "timer"
    /\ quiet' = TRUE
    /\ UNCHANGED <<engineVars, sideVars, running, run_control_temporarily_disabled, timer,
                   rx, hpc, tasks, press_disabled>>

\* worker_runtime() without the end-of-run stamp
RuntimeStampTimerSkipped ==
    /\ rpc = "timer"
    /\ rpc' = "clear_running"
    /\ UNCHANGED <<engineVars, sideVars, flagVars, rx, hpc, tasks, historyVars>>

\* worker_runtime(): if let Some((_, end_time)) = timer { *end_time = Some(now) }
RuntimeStampTimer ==
    /\ rpc = "timer"
    /\ timer' = IF timer = "none" THEN "none" ELSE "ended"
    /\ rpc' = "clear_running"
    /\ UNCHANGED <<engineVars, sideVars, running, run_control_temporarily_disabled, stop,
                   rx, hpc, tasks, historyVars>>

\* worker_runtime(): *running.lock() = false
RuntimeClearRunning ==
    /\ rpc = "clear_running"
    /\ running' = FALSE
    /\ rpc' = "enable"
    /\ UNCHANGED <<engineVars, sideVars, run_control_temporarily_disabled, stop, timer,
                   rx, hpc, tasks, historyVars>>

\* worker_runtime(): run_control_temporarily_disabled.store(false), next iteration
RuntimeEnableControl ==
    /\ rpc = "enable"
    /\ run_control_temporarily_disabled' = FALSE
    /\ rpc' = "recv"
    /\ UNCHANGED <<engineVars, sideVars, running, stop, timer, rx, hpc, tasks, historyVars>>

\* ------------------------------------------------------- the whole program
\* nothing has run yet: the engine, the crawl, the flags and the channel
Idle(supervisor_at) ==
    /\ wm_search_terms = {}
    /\ results = {}
    /\ KEY_COUNT = 0
    /\ key_oks = 0
    /\ VALUE_COUNT = 0
    /\ value_oks = 0
    /\ errors = SubkeyErrors(RootName, hive.root_errors)
    /\ popped = [k \in 1..Len(registry) |-> 0]
    /\ key_queue = <<>>
    /\ threads_waiting_for_work = 0
    /\ wpc = [w \in 1..threads |-> "unspawned"]
    /\ key_pair = [w \in 1..threads |-> 0]
    /\ work_ready = [w \in 1..threads |-> "none"]
    /\ no_work = [w \in 1..threads |-> "none"]
    /\ spc = "none"
    /\ running = FALSE
    /\ run_control_temporarily_disabled = FALSE
    /\ stop = FALSE
    /\ timer = "none"
    /\ rx = 0
    /\ rpc = supervisor_at
    /\ hpc = "idle"
    /\ tasks = [t \in 1..MaxTasks |-> "free"]
    /\ press_disabled = FALSE
    /\ quiet = FALSE

ProgramStart(supervisor_at) ==
    /\ registry \in Registries(SysKeys)
    /\ threads = NumCpus
    /\ hive = PlainHive(registry)
    /\ TrackerDefault
    /\ ShellStart
    /\ UiStart
    /\ Idle(supervisor_at)

\* worker_runtime waits on the channel for its first token
Init == ProgramStart("recv")

Next ==
    \/ ToggleLoad
    \/ ToggleStopDisable
    \/ ToggleStopStore
    \/ RequestSetRunning
    \/ RequestSetTimer
    \/ RequestSend
    \/ RuntimeRecv
    \/ RuntimeReset
    \/ RuntimeSeed
    \/ RuntimeClearStop
    \/ RuntimeStampTimer
    \/ RuntimeClearRunning
    \/ RuntimeEnableControl
    \/ EngineNext

Spec == Init /\ [][Next]_vars

\* ------------------------------- toggle_running with the crawl in a spawned task
FreeTasks == {t \in 1..MaxTasks : tasks[t] = "free"}

\* toggle_running(): run_control_temporarily_disabled.store(true) of the start branch
ToggleStartDisable ==
    /\ hpc = "start"
    /\ run_control_temporarily_disabled' = TRUE
    /\ hpc' = "spawn"
    /\ quiet' = FALSE
    /\ UNCHANGED <<engineVars, sideVars, running, stop, timer, rx, rpc, tasks, press_disabled>>

\* toggle_running(): tokio::spawn(async move { .. }); the handler returns
ToggleSpawn ==
    /\ hpc = "spawn"
    /\ FreeTasks # {}
    /\ LET t == CHOOSE x \in FreeTasks : \A y \in FreeTasks : x <= y
       IN tasks' = [tasks EXCEPT ![t] = "spawned"]
    /\ hpc' = "idle"
    /\ quiet' = FALSE
    /\ UNCHANGED <<engineVars, sideVars, flagVars, rx, rpc, press_disabled>>

\* spawned task: running.store(true)
TaskSetRunning(t) ==
    /\ tasks[t] = "spawned"
    /\ running' = TRUE
    /\ tasks' = [tasks EXCEPT ![t] = "enable"]
    /\ UNCHANGED <<engineVars, sideVars, run_control_temporarily_disabled, stop, timer,
                   rx, rpc, hpc, historyVars>>

\* spawned task: run_control_temporarily_disabled.store(false)
TaskEnableControl(t) ==
    /\ tasks[t] = "enable"
    /\ run_control_temporarily_disabled' = FALSE
    /\ tasks' = [tasks EXCEPT ![t] = "run"]
    /\ UNCHANGED <<engineVars, sideVars, running, stop, timer, rx, rpc, hpc, historyVars>>

\* spawned task: Arc::new(WorkerManager::new(..)) and feed_queue: the task has
\* its engine
TaskNew(t) ==
    /\ tasks[t] = "run"
    /\ tasks' = [tasks EXCEPT ![t] = "crawl"]
    /\ UNCHANGED <<engineVars, sideVars, flagVars, rx, rpc, hpc, historyVars>>

\* spawned task: run(..).await, after which the engine is dropped. The engine is
\* created inside the task and is private to it; run() and the workers neither
\* read nor write running, stop or run_control_temporarily_disabled, so the
\* crawl is one step of the task here (EngineNext is its step-by-step model).
TaskRun(t) ==
    /\ tasks[t] = "crawl"
    /\ tasks' = [tasks EXCEPT ![t] = "clear_stop"]
    /\ UNCHANGED <<engineVars, sideVars, flagVars, rx, rpc, hpc, historyVars>>

\* spawned task: stop.store(false)
TaskClearStop(t) ==
    /\ tasks[t] = "clear_stop"
    /\ stop' = FALSE
    /\ tasks' = [tasks EXCEPT ![t] = "clear_running"]
    /\ UNCHANGED <<engineVars, sideVars, running, run_control_temporarily_disabled, timer,
                   rx, rpc, hpc, historyVars>>

\* spawned task: running.store(false)
TaskClearRunning(t) ==
    /\ tasks[t] = "clear_running"
    /\ running' = FALSE
    /\ tasks' = [tasks EXCEPT ![t] = "reenable"]
    /\ UNCHANGED <<engineVars, sideVars, run_control_temporarily_disabled, stop, timer,
                   rx, rpc, hpc, historyVars>>

\* spawned task: run_control_temporarily_disabled.store(false); the task ends
TaskReenableControl(t) ==
    /\ tasks[t] = "reenable"
    /\ run_control_temporarily_disabled' = FALSE
    /\ tasks' = [tasks EXCEPT ![t] = "free"]
    /\ UNCHANGED <<engineVars, sideVars, running, stop, timer, rx, rpc, hpc, historyVars>>

\* controls, KeyCode::F(5): the key handler calls toggle_running for the next
\* F5 press (taken while a task slot is left). The second call that controls
\* makes when function_to_solve_a_dumb_problem() returned false is left out:
\* that function is not part of the sources.
SpawnPress == FreeTasks # {} /\ ToggleLoad

SpawnNext ==
    \/ SpawnPress
    \/ ToggleStopDisable
    \/ ToggleStopStore
    \/ ToggleStartDisable
    \/ ToggleSpawn
    \/ \E t \in 1..MaxTasks : TaskSetRunning(t)
    \/ \E t \in 1..MaxTasks : TaskEnableControl(t)
    \/ \E t \in 1..MaxTasks : TaskNew(t)
    \/ \E t \in 1..MaxTasks : TaskRun(t)
    \/ \E t \in 1..MaxTasks : TaskClearStop(t)
    \/ \E t \in 1..MaxTasks : TaskClearRunning(t)
    \/ \E t \in 1..MaxTasks : TaskReenableControl(t)

SpawnSpec == Init /\ [][SpawnNext]_vars

\* ------------------------------------------------- the search-term tracker
\* the byte of a character used in search terms
CharCode(c) ==
    CASE c = "A" -> 65
      [] c = "B" -> 66
      [] c = "D" -> 68
      [] c = "a" -> 97
      [] c = "b" -> 98
      [] c = "c" -> 99

\* Ord of String: byte-wise lexicographic, a proper prefix first
StrLess(s, t) ==
    \E i \in 1..Len(t) :
        /\ \A j \in 1..(i - 1) : j <= Len(s) /\ s[j] = t[j]
        /\ (i > Len(s) \/ CharCode(s[i]) < CharCode(t[i]))

\* the index of term in the iteration order of the BTreeSet terms
IndexOf(terms, term) == Cardinality({other \in terms : StrLess(other, term)})

\* get_value_from_index(): Some(value) is {value}, None is {}
GetValueFromIndex(index) ==
    {term \in search_terms : IndexOf(search_terms, term) = index}

\* get_value_at_current_index()
GetValueAtCurrentIndex == GetValueFromIndex(search_term_selected)

\* the texts an editor resolves to
TermTexts == {<<"B">>, <<"a">>, <<"a", "b">>}

\* the record of a call on the tracker: what was called and what it found
Call(op, accepted, mode, original, state) ==
    [op |-> op, accepted |-> accepted, mode |-> mode, original |-> original,
     state |-> state, terms |-> search_terms, selected |-> search_term_selected]

\* update(), Edit(original), with its two calls in the other order
EditedTermsInsertFirst(original, state) == (search_terms \cup {state}) \ {original}

\* update(), Edit(original): search_terms.remove(&original), then insert(state)
EditedTerms(original, state) == (search_terms \ {original}) \cup {state}

\* update(editor_mode, state), editor_mode being Add or Edit(original): what it
\* does to the tracker
SearchTermUpdate(mode, original, state) ==
    LET current_index_value == GetValueAtCurrentIndex
        discarded == current_index_value = {} /\ Cardinality(search_terms) > 0
    IN /\ last_call' = Call("update", ~discarded, mode, original, state)
       /\ IF discarded
          THEN UNCHANGED <<search_terms, search_term_selected>>
          ELSE LET followed == IF mode = "Edit" /\ current_index_value = {original}
                               THEN {state}
                               ELSE current_index_value
                   terms == IF mode = "Add"
                            THEN search_terms \cup {state}
                            ELSE EditedTerms(original, state)
               IN /\ search_terms' = terms
                  /\ search_term_selected' =
                        IF followed \cap terms # {}
                        THEN IndexOf(terms, CHOOSE value \in followed : TRUE)
                        ELSE search_term_selected
       /\ UNCHANGED search_term_elapsed

\* update(editor_mode, state) called on its own
Update(mode, original, state) ==
    /\ SearchTermUpdate(mode, original, state)
    /\ UNCHANGED <<engineVars, crawlVars, uiVars, flagVars, controlVars, historyVars, shellVars>>

\* controls, Enter in SearchMod on an editor made by new_add(): update(Add, state)
UpdateAdd(state) == Update("Add", <<>>, state)

\* controls, 'e' on a selected term and Enter in SearchMod on the editor made by
\* new_edit(selected): update(Edit(selected), state)
UpdateEdit(state) ==
    /\ GetValueAtCurrentIndex # {}
    /\ Update("Edit", CHOOSE value \in GetValueAtCurrentIndex : TRUE, state)

\* remove(term): the body is empty
TrackerRemove(term) ==
    /\ LET just_added == /\ last_call.op = "update"
                         /\ last_call.mode = "Add"
                         /\ last_call.state = term
                         /\ term \notin last_call.terms
       IN last_call' = [op |-> IF just_added THEN "remove_added" ELSE "remove",
                        accepted |-> TRUE, mode |-> "Add", original |-> <<>>,
                        state |-> term,
                        terms |-> IF just_added THEN last_call.terms ELSE search_terms,
                        selected |-> search_term_selected]
    /\ UNCHANGED <<search_terms, search_term_selected, search_term_elapsed>>
    /\ UNCHANGED <<engineVars, crawlVars, uiVars, flagVars, controlVars, historyVars, shellVars>>

\* the debounce with <= in place of <
DebouncedInclusive(elapsed) == elapsed <= DEBOUNCE

\* last_changed.elapsed() < DEBOUNCE
Debounced(elapsed) == elapsed < DEBOUNCE

\* up() and down(): max_index
MaxIndex(search_terms_len) ==
    IF search_terms_len > 1 THEN search_terms_len - 1 ELSE search_terms_len

\* up(): what it does to the tracker
SearchTermUp ==
    LET search_terms_len == Cardinality(search_terms)
        current == search_term_selected
    IN /\ last_call' = Call("up", search_term_elapsed >= DEBOUNCE, "Add", <<>>, <<>>)
       /\ IF Debounced(search_term_elapsed) \/ search_terms_len = 0
          THEN UNCHANGED <<search_term_selected, search_term_elapsed>>
          ELSE /\ search_term_selected' =
                    IF current = 0 THEN MaxIndex(search_terms_len) ELSE current - 1
               /\ search_term_elapsed' = 0
       /\ UNCHANGED search_terms

\* up() called on its own
TrackerUp ==
    /\ SearchTermUp
    /\ UNCHANGED <<engineVars, crawlVars, uiVars, flagVars, controlVars, historyVars, shellVars>>

\* down(): what it does to the tracker
SearchTermDown ==
    LET search_terms_len == Cardinality(search_terms)
        current == search_term_selected
    IN /\ last_call' = Call("down", search_term_elapsed >= DEBOUNCE, "Add", <<>>, <<>>)
       /\ IF Debounced(search_term_elapsed) \/ search_terms_len = 0
          THEN UNCHANGED <<search_term_selected, search_term_elapsed>>
          ELSE /\ search_term_selected' =
                    IF current + 1 <= MaxIndex(search_terms_len) THEN current + 1 ELSE 0
               /\ search_term_elapsed' = 0
       /\ UNCHANGED search_terms

\* down() called on its own
TrackerDown ==
    /\ SearchTermDown
    /\ UNCHANGED <<engineVars, crawlVars, uiVars, flagVars, controlVars, historyVars, shellVars>>

\* Instant::elapsed() one tick later, followed up to DEBOUNCE
Elapse(elapsed) == IF elapsed < DEBOUNCE THEN elapsed + TickMs ELSE elapsed

\* time passes: the elapsed() of the three last_changed instants grows
Tick ==
    /\ search_term_elapsed < DEBOUNCE \/ pane_elapsed < DEBOUNCE \/ root_elapsed < DEBOUNCE
    /\ search_term_elapsed' = Elapse(search_term_elapsed)
    /\ pane_elapsed' = Elapse(pane_elapsed)
    /\ root_elapsed' = Elapse(root_elapsed)
    /\ UNCHANGED <<search_terms, search_term_selected, last_call>>
    /\ UNCHANGED <<pane_selected, root_selected, last_move, editorVars, lockVars, valueVars, rootVars>>
    /\ UNCHANGED <<engineVars, crawlVars, flagVars, controlVars, historyVars, shellVars>>

TrackerNext ==
    \/ TrackerUp
    \/ TrackerDown
    \/ Tick
    \/ \E state \in TermTexts : UpdateAdd(state)
    \/ \E state \in TermTexts : UpdateEdit(state)
    \/ \E term \in TermTexts : TrackerRemove(term)

TrackerSpec == Init /\ [][TrackerNext]_vars

\* the texts of an editor that may be resolved with nothing typed
EmptyTexts == {<<>>, <<"a">>}

\* the tracker with editors resolved to the empty text as well
EmptyTermNext ==
    \/ TrackerUp
    \/ TrackerDown
    \/ Tick
    \/ \E state \in EmptyTexts : UpdateAdd(state)
    \/ \E state \in EmptyTexts : UpdateEdit(state)

EmptyTermSpec == Init /\ [][EmptyTermNext]_vars

\* --------------------------------------------- the cursors of the panes
\* the record of a pane or hive move: what was called and what it found
Move(op, elapsed, from) == [op |-> op, elapsed |-> elapsed, from |-> from]

\* pane_left() stopping at the first pane
PaneLeftValueNoWrap(current) == IF current \in 1..2 THEN {current - 1} ELSE {0}

\* pane_left(): the match on pane_selected; {} where the arm returns
PaneLeftValue(current) ==
    CASE current = 0 -> {2}
      [] current = 1 -> {0}
      [] current = 2 -> {1}
      [] OTHER -> {}

\* pane_right(): the match on pane_selected
PaneRightValue(current) ==
    CASE current = 0 -> {1}
      [] current = 1 -> {2}
      [] current = 2 -> {0}
      [] OTHER -> {}

\* root_up(): the match on root_selected
RootUpValue(current) ==
    CASE current = 0 -> {4}
      [] current = 1 -> {0}
      [] current = 2 -> {1}
      [] current = 3 -> {2}
      [] current = 4 -> {3}
      [] OTHER -> {}

\* root_down(): the match on root_selected
RootDownValue(current) ==
    CASE current = 0 -> {1}
      [] current = 1 -> {2}
      [] current = 2 -> {3}
      [] current = 3 -> {4}
      [] current = 4 -> {0}
      [] OTHER -> {}

\* pane_left() and pane_right(): the debounce, the store and the new instant
PaneMove(op, new_value) ==
    /\ last_move' = Move(op, pane_elapsed, pane_selected)
    /\ IF Debounced(pane_elapsed) \/ new_value = {}
       THEN UNCHANGED <<pane_selected, pane_elapsed>>
       ELSE /\ pane_selected' = CHOOSE value \in new_value : TRUE
            /\ pane_elapsed' = 0
    /\ UNCHANGED <<root_selected, root_elapsed>>

\* root_up() and root_down(): the debounce, the store and the new instant
RootMove(op, new_value) ==
    /\ last_move' = Move(op, root_elapsed, root_selected)
    /\ IF Debounced(root_elapsed) \/ new_value = {}
       THEN UNCHANGED <<root_selected, root_elapsed>>
       ELSE /\ root_selected' = CHOOSE value \in new_value : TRUE
            /\ root_elapsed' = 0
    /\ UNCHANGED <<pane_selected, pane_elapsed>>

PaneLeft == PaneMove("pane_left", PaneLeftValue(pane_selected))

PaneRight == PaneMove("pane_right", PaneRightValue(pane_selected))

RootUp == RootMove("root_up", RootUpValue(root_selected))

RootDown == RootMove("root_down", RootDownValue(root_selected))

\* ------------------------------------------------- the keys of controls
\* a key other than F5 is read while no F5 press is being handled, and what
\* such a key leaves alone
KeyRead ==
    /\ hpc = "idle"
    /\ quiet' = FALSE
    /\ UNCHANGED <<engineVars, crawlVars, flagVars, controlVars, press_disabled,
                   process_stop, dpc, tx_closed, lockVars, valueVars, rootVars>>

\* SearchEditor::new_add()
NewAdd == [mode |-> "Add", original |-> <<>>, state |-> <<>>]

\* an editor in Edit mode that starts with an empty state
NewEditBlank(original) == [mode |-> "Edit", original |-> original, state |-> <<>>]

\* SearchEditor::new_edit(original)
NewEdit(original) == [mode |-> "Edit", original |-> original, state |-> original]

\* SearchEditor::add_char(ch)
AddChar(search_editor, ch) == [search_editor EXCEPT !.state = Append(@, ch)]

\* SearchEditor::backspace()
Backspace(search_editor) ==
    [search_editor EXCEPT !.state = IF @ = <<>> THEN @ ELSE SubSeq(@, 1, Len(@) - 1)]

\* the characters typed in the editor
EditorChars == {"a", "B"}

\* the record of a SearchMod that has just been entered
Entered ==
    [terms |-> search_terms, selected |-> search_term_selected,
     edited |-> FALSE, left_by |-> "open"]

\* controls, Main: 'n'
KeyNew ==
    /\ KeyRead
    /\ focus = "Main"
    /\ focus' = "SearchMod"
    /\ editor' = {NewAdd}
    /\ session' = Entered
    /\ UNCHANGED <<trackerVars, cursorVars>>

\* controls, Main: 'e'
KeyEdit ==
    /\ KeyRead
    /\ focus = "Main"
    /\ LET search_terms_is_empty == search_terms = {}
           selected_search_term_value == GetValueAtCurrentIndex
       IN IF pane_selected = 1 /\ ~search_terms_is_empty /\ selected_search_term_value # {}
          THEN /\ focus' = "SearchMod"
               /\ editor' = {NewEdit(CHOOSE value \in selected_search_term_value : TRUE)}
               /\ session' = Entered
          ELSE UNCHANGED <<focus, editor, session>>
    /\ UNCHANGED <<trackerVars, cursorVars>>

\* controls, Main: Left
KeyLeft ==
    /\ KeyRead
    /\ focus = "Main"
    /\ PaneLeft
    /\ UNCHANGED <<focus, trackerVars, editorVars>>

\* controls, Main: Right
KeyRight ==
    /\ KeyRead
    /\ focus = "Main"
    /\ PaneRight
    /\ UNCHANGED <<focus, trackerVars, editorVars>>

\* controls, Main: Up
KeyUp ==
    /\ KeyRead
    /\ focus = "Main"
    /\ CASE pane_selected = 0 -> RootUp /\ UNCHANGED trackerVars
         [] pane_selected = 1 -> SearchTermUp /\ UNCHANGED cursorVars
         [] OTHER -> UNCHANGED <<trackerVars, cursorVars>>
    /\ UNCHANGED <<focus, editorVars>>

\* controls, Main: Down
KeyDown ==
    /\ KeyRead
    /\ focus = "Main"
    /\ CASE pane_selected = 0 -> RootDown /\ UNCHANGED trackerVars
         [] pane_selected = 1 -> SearchTermDown /\ UNCHANGED cursorVars
         [] OTHER -> UNCHANGED <<trackerVars, cursorVars>>
    /\ UNCHANGED <<focus, editorVars>>

\* controls, Main: Enter: root_toggle() on the hives pane; of the hives the
\* one that is crawled here is followed, which Root::from_u8 gives for 2
KeyEnter ==
    /\ hpc = "idle"
    /\ focus = "Main"
    /\ local_machine' = IF pane_selected = 0 /\ root_selected = 2
                        THEN ~local_machine
                        ELSE local_machine
    /\ quiet' = FALSE
    /\ UNCHANGED <<engineVars, crawlVars, flagVars, controlVars, press_disabled, shellVars,
                   trackerVars, cursorVars, editorVars, lockVars, valueVars, snapshot>>

\* controls, SearchMod: a character, while the buffer has room
SearchModChar(ch) ==
    /\ KeyRead
    /\ focus = "SearchMod"
    /\ editor # {}
    /\ LET search_editor == CHOOSE e \in editor : TRUE
       IN /\ Len(search_editor.state) < MaxBuffer
          /\ editor' = {AddChar(search_editor, ch)}
    /\ session' = [session EXCEPT !.edited = TRUE]
    /\ UNCHANGED <<focus, trackerVars, cursorVars>>

\* controls, SearchMod: Backspace
SearchModBackspace ==
    /\ KeyRead
    /\ focus = "SearchMod"
    /\ editor # {}
    /\ editor' = {Backspace(CHOOSE e \in editor : TRUE)}
    /\ session' = [session EXCEPT !.edited = TRUE]
    /\ UNCHANGED <<focus, trackerVars, cursorVars>>

\* an Esc that resolves the editor as Enter does
SearchModEscResolves ==
    /\ KeyRead
    /\ focus = "SearchMod"
    /\ focus' = "Main"
    /\ session' = [session EXCEPT !.left_by = "Esc"]
    /\ IF editor = {}
       THEN UNCHANGED trackerVars
       ELSE LET search_editor == CHOOSE e \in editor : TRUE
            IN SearchTermUpdate(search_editor.mode, search_editor.original,
                                search_editor.state)
    /\ UNCHANGED <<editor, cursorVars>>

\* controls, SearchMod: Esc
SearchModEsc ==
    /\ KeyRead
    /\ focus = "SearchMod"
    /\ focus' = "Main"
    /\ session' = [session EXCEPT !.left_by = "Esc"]
    /\ UNCHANGED <<editor, trackerVars, cursorVars>>

\* controls, SearchMod: Enter, the three locks taken and the handler alone
SearchModEnter ==
    /\ KeyRead
    /\ focus = "SearchMod"
    /\ focus' = "Main"
    /\ editor' = {}
    /\ session' = [session EXCEPT !.left_by = "Enter"]
    /\ IF editor = {}
       THEN UNCHANGED trackerVars
       ELSE LET search_editor == CHOOSE e \in editor : TRUE
            IN SearchTermUpdate(search_editor.mode, search_editor.original,
                                search_editor.state)
    /\ UNCHANGED cursorVars

\* ------------------------------ the three loops and the process stop flag
\* controls, Main: 'q' or Esc
KeyQuit ==
    /\ hpc = "idle"
    /\ focus = "Main"
    /\ focus' = "ConfirmClose"
    /\ quiet' = FALSE
    /\ UNCHANGED <<engineVars, crawlVars, uiVars, flagVars, controlVars, trackerVars,
                   press_disabled, process_stop, dpc, tx_closed>>

\* controls, Main: 'h'
KeyHelp ==
    /\ hpc = "idle"
    /\ focus = "Main"
    /\ focus' = "Help"
    /\ quiet' = FALSE
    /\ UNCHANGED <<engineVars, crawlVars, uiVars, flagVars, controlVars, trackerVars,
                   press_disabled, process_stop, dpc, tx_closed>>

\* controls, Help: 'q', Esc or 'h'
HelpBack ==
    /\ hpc = "idle"
    /\ focus = "Help"
    /\ focus' = "Main"
    /\ quiet' = FALSE
    /\ UNCHANGED <<engineVars, crawlVars, uiVars, flagVars, controlVars, trackerVars,
                   press_disabled, process_stop, dpc, tx_closed>>

\* controls, ConfirmClose: Esc or 'n'
ConfirmCloseCancel ==
    /\ hpc = "idle"
    /\ focus = "ConfirmClose"
    /\ focus' = "Main"
    /\ quiet' = FALSE
    /\ UNCHANGED <<engineVars, crawlVars, uiVars, flagVars, controlVars, trackerVars,
                   press_disabled, process_stop, dpc, tx_closed>>

\* controls, ConfirmClose: Enter, 'y' or 'q': stop.store(true); break
ConfirmCloseStore ==
    /\ hpc = "idle"
    /\ focus = "ConfirmClose"
    /\ process_stop' = TRUE
    /\ hpc' = "break"
    /\ quiet' = FALSE
    /\ UNCHANGED <<engineVars, crawlVars, uiVars, flagVars, trackerVars, rx, rpc, tasks,
                   press_disabled, focus, dpc, tx_closed>>

\* The loop of controls is left: the run-request channel is closed (the sender
\* is not in the sources; the step follows the key table of the specification).
ConfirmCloseChannel ==
    /\ hpc = "break"
    /\ tx_closed' = TRUE
    /\ hpc' = "closed"
    /\ quiet' = FALSE
    /\ UNCHANGED <<engineVars, crawlVars, uiVars, flagVars, trackerVars, rx, rpc, tasks,
                   press_disabled, focus, process_stop, dpc>>

\* controls, Main: F5
ClosePress == focus = "Main" /\ ToggleLoad

\* renderer(): if stop.load() { break }
RendererCheckStop ==
    /\ dpc = "check"
    /\ dpc' = IF process_stop THEN "exit" ELSE "draw"
    /\ UNCHANGED <<engineVars, crawlVars, uiVars, flagVars, controlVars, historyVars, trackerVars,
                   focus, process_stop, tx_closed>>

\* renderer(): terminal.draw(..)?: the next iteration, or the error is returned
RendererDraw ==
    /\ dpc = "draw"
    /\ \E drawn \in BOOLEAN : dpc' = IF drawn THEN "check" ELSE "exit"
    /\ UNCHANGED <<engineVars, crawlVars, uiVars, flagVars, controlVars, historyVars, trackerVars,
                   focus, process_stop, tx_closed>>

\* renderer_wrappers_wrapper(): stop.store(true) once renderer_wrapper is back
RendererStoreStop ==
    /\ dpc = "exit"
    /\ process_stop' = TRUE
    /\ dpc' = "done"
    /\ UNCHANGED <<engineVars, crawlVars, uiVars, flagVars, controlVars, historyVars, trackerVars,
                   focus, tx_closed>>

\* worker_runtime(): if stop.load() { break } at the top of the loop
RuntimeCheckStop ==
    /\ rpc = "check"
    /\ rpc' = IF process_stop THEN "done" ELSE "recv"
    /\ UNCHANGED <<engineVars, crawlVars, uiVars, flagVars, rx, hpc, tasks, historyVars,
                   trackerVars, shellVars>>

\* worker_runtime(): rx.recv().await is None: no token is left and no sender
RuntimeRecvClosed ==
    /\ rpc = "recv"
    /\ rx = 0
    /\ tx_closed
    /\ rpc' = "done"
    /\ UNCHANGED <<engineVars, crawlVars, uiVars, flagVars, rx, hpc, tasks, historyVars,
                   trackerVars, shellVars>>

\* worker_runtime(): if stop.load() { break } after a token was received
RuntimeRecheckStop ==
    /\ rpc = "seed"
    /\ rpc' = IF process_stop THEN "done" ELSE "crawl"
    /\ UNCHANGED <<engineVars, crawlVars, uiVars, flagVars, rx, hpc, tasks, historyVars,
                   trackerVars, shellVars>>

\* worker_runtime(): one whole crawl, from the reset of the counters to the
\* clearing of the flags, as one step: run() returns (C1) and neither it nor the
\* workers read the process stop flag. The hive is the plain one: every key is
\* counted once and no line is found.
RuntimeCrawl ==
    /\ rpc = "crawl"
    /\ wm_search_terms' = NewSearchTerms(search_terms)
    /\ KEY_COUNT' = Len(registry)
    /\ key_oks' = Len(registry)
    /\ VALUE_COUNT' = 0
    /\ value_oks' = 0
    /\ errors' = {}
    /\ stop' = FALSE
    /\ timer' = IF timer = "none" THEN "none" ELSE "ended"
    /\ running' = FALSE
    /\ run_control_temporarily_disabled' = FALSE
    /\ rpc' = "check"
    /\ UNCHANGED <<engineVars, hive, results, popped, rx, hpc, tasks, historyVars,
                   trackerVars, shellVars, uiVars>>

\* the steps of the key handler once a key has been read
HandlerStep ==
    \/ ToggleStopDisable
    \/ ToggleStopStore
    \/ RequestSetRunning
    \/ RequestSetTimer
    \/ RequestSend
    \/ ConfirmCloseChannel

RendererStep ==
    \/ RendererCheckStop
    \/ RendererDraw
    \/ RendererStoreStop

RuntimeStep ==
    \/ RuntimeCheckStop
    \/ RuntimeRecv
    \/ RuntimeRecvClosed
    \/ RuntimeRecheckStop
    \/ RuntimeCrawl

\* worker_runtime is at the top of its loop
CloseInit == ProgramStart("check")

CloseNext ==
    \/ KeyQuit
    \/ KeyHelp
    \/ HelpBack
    \/ ConfirmCloseCancel
    \/ ConfirmCloseStore
    \/ ClosePress
    \/ HandlerStep
    \/ RendererStep
    \/ RuntimeStep

\* The renderer is a thread and worker_runtime a task of the runtime: both are
\* scheduled; the key handler goes on once it has read a key; no key has to be
\* pressed.
CloseSpec ==
    /\ CloseInit
    /\ [][CloseNext]_vars
    /\ WF_vars(HandlerStep)
    /\ WF_vars(RendererStep)
    /\ WF_vars(RuntimeStep)

\* ------------------------------------ controls and the renderer, lock by lock
\* a read lock is free while no writer holds the lock, a write lock while
\* nobody holds it
Free(lock, mode) ==
    IF mode = "write"
    THEN locks[lock] = {}
    ELSE \A holder \in locks[lock] : holder[2] = "read"

\* RwLock::read() and RwLock::write(): the guard is handed out once the lock is free
Acquire(thread, lock, mode) ==
    /\ Free(lock, mode)
    /\ locks' = [locks EXCEPT ![lock] = @ \cup {<<thread, mode>>}]

\* the locks as they are once the guards of thread on them are dropped
Dropped(thread, dropped) ==
    [lock \in LockNames |->
        IF lock \in dropped
        THEN {holder \in locks[lock] : holder[1] # thread}
        ELSE locks[lock]]

\* what no step of controls or of the renderer below touches
LockFrame ==
    UNCHANGED <<engineVars, crawlVars, flagVars, rx, rpc, tasks, press_disabled,
                process_stop, tx_closed, cursorVars, valueVars,
                rootVars>>

\* a step of controls
ControlsFrame ==
    /\ quiet' = FALSE
    /\ UNCHANGED <<dpc, drawn_focus>>
    /\ LockFrame

\* a step of the draw closure of the renderer
DrawFrame ==
    /\ UNCHANGED <<hpc, key_code, quiet, focus, editor, session, trackerVars>>
    /\ LockFrame

\* the keys pressed: 'n', 'e', a character, Esc and Enter
LockKeys == {"n", "e", "Char", "Esc", "Enter"}

\* controls: event::read() gives a key press
ControlsRead(code) ==
    /\ hpc = "idle"
    /\ code = "Char" =>
            \A search_editor \in editor : Len(search_editor.state) < MaxBuffer
    /\ key_code' = code
    /\ hpc' = "focus_lock"
    /\ UNCHANGED <<locks, focus, editor, session, trackerVars>>
    /\ ControlsFrame

\* controls: focus.read() of `let focus_ = focus.read().to_owned()`
ControlsFocusLock ==
    /\ hpc = "focus_lock"
    /\ Acquire("controls", "focus", "read")
    /\ hpc' = "focus_clone"
    /\ UNCHANGED <<key_code, focus, editor, session, trackerVars>>
    /\ ControlsFrame

\* controls: the clone is made, the guard dropped, and focus_ and the key matched
ControlsFocusClone ==
    /\ hpc = "focus_clone"
    /\ locks' = Dropped("controls", {"focus"})
    /\ hpc' = CASE focus = "Main" /\ key_code = "n" -> "new_lock"
                [] focus = "Main" /\ key_code = "e" /\ pane_selected = 1 -> "edit_terms_lock"
                [] focus = "SearchMod" /\ key_code = "Char" -> "char_lock"
                [] focus = "SearchMod" /\ key_code = "Esc" -> "esc_lock"
                [] focus = "SearchMod" /\ key_code = "Enter" -> "enter_first"
                [] OTHER -> "idle"
    /\ key_code' = IF hpc' = "idle" THEN "none" ELSE key_code
    /\ UNCHANGED <<focus, editor, session, trackerVars>>
    /\ ControlsFrame

\* controls, Main, 'n': focus.write()
ControlsNewLock ==
    /\ hpc = "new_lock"
    /\ Acquire("controls", "focus", "write")
    /\ hpc' = "new_store"
    /\ UNCHANGED <<key_code, focus, editor, session, trackerVars>>
    /\ ControlsFrame

\* controls, Main, 'n': the new focus is stored and the guard dropped
ControlsNewStore ==
    /\ hpc = "new_store"
    /\ focus' = "SearchMod"
    /\ editor' = {NewAdd}
    /\ session' = Entered
    /\ locks' = Dropped("controls", {"focus"})
    /\ hpc' = "idle"
    /\ key_code' = "none"
    /\ UNCHANGED trackerVars
    /\ ControlsFrame

\* controls, Main, 'e': search_term_tracker.read()
ControlsEditTermsLock ==
    /\ hpc = "edit_terms_lock"
    /\ Acquire("controls", "search_term_tracker", "read")
    /\ hpc' = "edit_terms_read"
    /\ UNCHANGED <<key_code, focus, editor, session, trackerVars>>
    /\ ControlsFrame

\* controls, Main, 'e': is_empty() and get_value_at_current_index() are read and
\* the guard dropped
ControlsEditTermsRead ==
    /\ hpc = "edit_terms_read"
    /\ locks' = Dropped("controls", {"search_term_tracker"})
    /\ hpc' = IF search_terms # {} /\ GetValueAtCurrentIndex # {}
              THEN "edit_lock"
              ELSE "idle"
    /\ key_code' = IF hpc' = "idle" THEN "none" ELSE key_code
    /\ UNCHANGED <<focus, editor, session, trackerVars>>
    /\ ControlsFrame

\* controls, Main, 'e': focus.write()
ControlsEditLock ==
    /\ hpc = "edit_lock"
    /\ Acquire("controls", "focus", "write")
    /\ hpc' = "edit_store"
    /\ UNCHANGED <<key_code, focus, editor, session, trackerVars>>
    /\ ControlsFrame

\* controls, Main, 'e': the new focus is stored and the guard dropped
ControlsEditStore ==
    /\ hpc = "edit_store"
    /\ focus' = "SearchMod"
    /\ editor' = {NewEdit(CHOOSE value \in GetValueAtCurrentIndex : TRUE)}
    /\ session' = Entered
    /\ locks' = Dropped("controls", {"focus"})
    /\ hpc' = "idle"
    /\ key_code' = "none"
    /\ UNCHANGED trackerVars
    /\ ControlsFrame

\* controls, SearchMod, a character: search_editor.write()
ControlsCharLock ==
    /\ hpc = "char_lock"
    /\ Acquire("controls", "editor", "write")
    /\ hpc' = "char_push"
    /\ UNCHANGED <<key_code, focus, editor, session, trackerVars>>
    /\ ControlsFrame

\* controls, SearchMod, a character: add_char(ch) and the guard dropped
ControlsCharPush(ch) ==
    /\ hpc = "char_push"
    /\ editor # {}
    /\ editor' = {AddChar(CHOOSE search_editor \in editor : TRUE, ch)}
    /\ session' = [session EXCEPT !.edited = TRUE]
    /\ locks' = Dropped("controls", {"editor"})
    /\ hpc' = "idle"
    /\ key_code' = "none"
    /\ UNCHANGED <<focus, trackerVars>>
    /\ ControlsFrame

\* controls, SearchMod, Esc: focus.write()
ControlsEscLock ==
    /\ hpc = "esc_lock"
    /\ Acquire("controls", "focus", "write")
    /\ hpc' = "esc_store"
    /\ UNCHANGED <<key_code, focus, editor, session, trackerVars>>
    /\ ControlsFrame

\* controls, SearchMod, Esc: Focus::Main is stored and the guard dropped
ControlsEscStore ==
    /\ hpc = "esc_store"
    /\ focus' = "Main"
    /\ session' = [session EXCEPT !.left_by = "Esc"]
    /\ locks' = Dropped("controls", {"focus"})
    /\ hpc' = "idle"
    /\ key_code' = "none"
    /\ UNCHANGED <<editor, trackerVars>>
    /\ ControlsFrame

\* the locks Enter takes, with the order reversed
EnterLocksReversed == <<"search_term_tracker", "editor", "focus">>

\* controls, SearchMod, Enter: focus.write(), search_editor.write() and
\* search_term_tracker.write(), in the order they are taken
EnterLocks == <<"focus", "editor", "search_term_tracker">>

\* the positions of controls before each of these locks, and after the last
EnterPositions == <<"enter_first", "enter_second", "enter_third", "enter_update">>

\* controls, SearchMod, Enter: the i-th write lock is taken
ControlsEnterLock(i) ==
    /\ hpc = EnterPositions[i]
    /\ Acquire("controls", EnterLocks[i], "write")
    /\ hpc' = EnterPositions[i + 1]
    /\ UNCHANGED <<key_code, focus, editor, session, trackerVars>>
    /\ ControlsFrame

\* controls, SearchMod, Enter: what is done under the locks (the editor taken,
\* Focus::Main stored, update() called), seen by the other threads when the
\* guards are dropped
ControlsEnterUpdate ==
    /\ hpc = "enter_update"
    /\ focus' = "Main"
    /\ editor' = {}
    /\ session' = [session EXCEPT !.left_by = "Enter"]
    /\ IF editor = {}
       THEN UNCHANGED trackerVars
       ELSE LET search_editor == CHOOSE e \in editor : TRUE
            IN SearchTermUpdate(search_editor.mode, search_editor.original,
                                search_editor.state)
    /\ locks' = Dropped("controls", LockNames)
    /\ hpc' = "idle"
    /\ key_code' = "none"
    /\ ControlsFrame

\* renderer: search_term_tracker.read() of the search-terms pane
DrawTermsLock ==
    /\ dpc = "draw"
    /\ Acquire("renderer", "search_term_tracker", "read")
    /\ dpc' = "terms"
    /\ UNCHANGED drawn_focus
    /\ DrawFrame

\* renderer: the pane is rendered and the guard dropped
DrawTermsRender ==
    /\ dpc = "terms"
    /\ locks' = Dropped("renderer", {"search_term_tracker"})
    /\ dpc' = "overlay"
    /\ UNCHANGED drawn_focus
    /\ DrawFrame

\* renderer: focus.read() of `let focus = focus.read().to_owned()`
DrawFocusLock ==
    /\ dpc = "overlay"
    /\ Acquire("renderer", "focus", "read")
    /\ dpc' = "focus_clone"
    /\ UNCHANGED drawn_focus
    /\ DrawFrame

\* renderer: the clone is made, the guard dropped and the clone matched
DrawFocusClone ==
    /\ dpc = "focus_clone"
    /\ drawn_focus' = focus
    /\ locks' = Dropped("renderer", {"focus"})
    /\ dpc' = IF focus = "SearchMod" THEN "editor_lock" ELSE "frame"
    /\ DrawFrame

\* renderer, SearchMod overlay: search_editor.read()
DrawEditorLock ==
    /\ dpc = "editor_lock"
    /\ Acquire("renderer", "editor", "read")
    /\ dpc' = "editor_render"
    /\ UNCHANGED drawn_focus
    /\ DrawFrame

\* renderer, SearchMod overlay: as_ref().unwrap().render(); unwrap() panics on
\* None and the guard is dropped either way
DrawEditorRender ==
    /\ dpc = "editor_render"
    /\ locks' = Dropped("renderer", {"editor"})
    /\ dpc' = IF editor = {} THEN "panicked" ELSE "frame"
    /\ UNCHANGED drawn_focus
    /\ DrawFrame

\* renderer: terminal.draw(..)? is over: the next iteration, or the error is returned
DrawDone ==
    /\ dpc = "frame"
    /\ \E drawn \in BOOLEAN : dpc' = IF drawn THEN "check" ELSE "exit"
    /\ UNCHANGED <<locks, drawn_focus>>
    /\ DrawFrame

\* the character typed while the locks are followed
LockChars == {"a"}

\* the program with the search-terms pane selected
LockInit ==
    /\ registry = <<>>
    /\ threads = NumCpus
    /\ hive = PlainHive(registry)
    /\ TrackerDefault
    /\ ShellStart
    /\ pane_selected = 1
    /\ pane_elapsed = 0
    /\ root_selected = 0
    /\ root_elapsed = 0
    /\ last_move = NoMove
    /\ editor = {}
    /\ session = NoSession
    /\ locks = [lock \in LockNames |-> {}]
    /\ drawn_focus = "Main"
    /\ key_code = "none"
    /\ NoValue
    /\ RootsDefault
    /\ Idle("recv")

LockNext ==
    \/ \E code \in LockKeys : ControlsRead(code)
    \/ ControlsFocusLock
    \/ ControlsFocusClone
    \/ ControlsNewLock
    \/ ControlsNewStore
    \/ ControlsEditTermsLock
    \/ ControlsEditTermsRead
    \/ ControlsEditLock
    \/ ControlsEditStore
    \/ ControlsCharLock
    \/ \E ch \in LockChars : ControlsCharPush(ch)
    \/ ControlsEscLock
    \/ ControlsEscStore
    \/ \E i \in 1..3 : ControlsEnterLock(i)
    \/ ControlsEnterUpdate
    \/ RendererCheckStop
    \/ DrawTermsLock
    \/ DrawTermsRender
    \/ DrawFocusLock
    \/ DrawFocusClone
    \/ DrawEditorLock
    \/ DrawEditorRender
    \/ DrawDone
    \/ RendererStoreStop

LockSpec == LockInit /\ [][LockNext]_vars

\* ----------------------------------- the arrow keys of Main and the clock
\* the sets of search terms the arrow keys find
CursorTermSets == {{}, {<<"a">>}, {<<"a">>, <<"B">>}}

\* the program with its terms typed and the first of them selected; the
\* registry is not read by the keys
CursorInit ==
    /\ registry = <<>>
    /\ threads = NumCpus
    /\ hive = PlainHive(registry)
    /\ search_terms \in CursorTermSets
    /\ search_term_selected = 0
    /\ search_term_elapsed = 0
    /\ last_call = NoCall
    /\ ShellStart
    /\ UiStart
    /\ Idle("recv")

CursorNext ==
    \/ KeyLeft
    \/ KeyRight
    \/ KeyUp
    \/ KeyDown
    \/ Tick

CursorSpec == CursorInit /\ [][CursorNext]_vars

\* ------------------------------------- the keys that move the focus
\* the program with any pane selected and either no term, or one term and the
\* cursor that Down leaves on it
FocusInit ==
    /\ registry = <<>>
    /\ threads = NumCpus
    /\ hive = PlainHive(registry)
    /\ \/ search_terms = {} /\ search_term_selected = 0
       \/ search_terms = {<<"a">>} /\ search_term_selected = 1
    /\ search_term_elapsed = 0
    /\ last_call = NoCall
    /\ ShellStart
    /\ pane_selected \in 0..2
    /\ pane_elapsed = 0
    /\ root_selected = 0
    /\ root_elapsed = 0
    /\ last_move = NoMove
    /\ editor = {}
    /\ session = NoSession
    /\ locks = [lock \in LockNames |-> {}]
    /\ drawn_focus = "Main"
    /\ key_code = "none"
    /\ NoValue
    /\ RootsDefault
    /\ Idle("recv")

FocusNext ==
    \/ KeyNew
    \/ KeyEdit
    \/ KeyHelp
    \/ KeyQuit
    \/ \E ch \in EditorChars : SearchModChar(ch)
    \/ SearchModBackspace
    \/ SearchModEsc
    \/ SearchModEnter
    \/ HelpBack
    \/ ConfirmCloseCancel
    \/ ConfirmCloseStore

FocusSpec == FocusInit /\ [][FocusNext]_vars

\* ------------------------------------------- the stringification of values
\* the kinds of value alt_reg_value_to_string handles itself
RegTypes ==
    {"REG_SZ", "REG_EXPAND_SZ", "REG_BINARY", "REG_DWORD", "REG_DWORD_BIG_ENDIAN",
     "REG_QWORD", "REG_MULTI_SZ", "REG_RESOURCE_LIST", "REG_NONE"}

\* the bytes of the values
ValueBytes == {NUL, "a", "b", "c"}

\* the byte strings of the values: every one of up to MaxBytes bytes, and
\* eight-byte ones whose number fits the integers of the model
ByteStrings ==
    UNION {[1..n -> ValueBytes] : n \in 0..MaxBytes}
        \cup {low \o <<NUL, NUL, NUL, NUL>> : low \in [1..4 -> {NUL, "a"}]}

\* a value of any kind and any bytes, not yet stringified
ValueInit ==
    /\ registry = <<>>
    /\ threads = NumCpus
    /\ hive = PlainHive(registry)
    /\ TrackerDefault
    /\ ShellStart
    /\ pane_selected = 0
    /\ pane_elapsed = 0
    /\ root_selected = 0
    /\ root_elapsed = 0
    /\ last_move = NoMove
    /\ editor = {}
    /\ session = NoSession
    /\ locks = [lock \in LockNames |-> {}]
    /\ drawn_focus = "Main"
    /\ key_code = "none"
    /\ reg_value \in [vtype : RegTypes, bytes : ByteStrings]
    /\ RootsDefault
    /\ stringified = {}
    /\ Idle("recv")

\* let data = alt_reg_value_to_string(value)
Stringify ==
    /\ stringified = {}
    /\ stringified' = {AltRegValueToString(reg_value)}
    /\ UNCHANGED <<engineVars, crawlVars, cursorVars, editorVars, lockVars, reg_value, rootVars,
                   flagVars, controlVars, historyVars, trackerVars, shellVars>>

ValueSpec == ValueInit /\ [][Stringify]_vars

\* ------------------------------------ a crawl next to the key handler
\* the term typed while the crawl runs
SnapshotTexts == {<<"c">>}

\* worker_runtime has received a token; any selection of the hive, one term
\* typed before, a hive in which nothing fails
SnapshotInit ==
    /\ registry \in Registries(RunKeys)
    /\ threads = NumCpus
    /\ hive \in {h \in Hives(registry) : Faults(h) = 0}
    /\ search_terms = {<<"A", "B">>}
    /\ search_term_selected = 0
    /\ search_term_elapsed = 0
    /\ last_call = NoCall
    /\ ShellStart
    /\ pane_selected = 0
    /\ pane_elapsed = 0
    /\ root_selected = 2
    /\ root_elapsed = 0
    /\ last_move = NoMove
    /\ editor = {}
    /\ session = NoSession
    /\ locks = [lock \in LockNames |-> {}]
    /\ drawn_focus = "Main"
    /\ key_code = "none"
    /\ NoValue
    /\ local_machine \in BOOLEAN
    /\ snapshot = [local_machine |-> TRUE, search_terms |-> {}]
    /\ wm_search_terms = {}
    /\ results = {}
    /\ KEY_COUNT = 0
    /\ key_oks = 0
    /\ VALUE_COUNT = 0
    /\ value_oks = 0
    /\ errors = {}
    /\ popped = [k \in 1..Len(registry) |-> 0]
    /\ key_queue = <<>>
    /\ threads_waiting_for_work = 0
    /\ wpc = [w \in 1..threads |-> "unspawned"]
    /\ key_pair = [w \in 1..threads |-> 0]
    /\ work_ready = [w \in 1..threads |-> "none"]
    /\ no_work = [w \in 1..threads |-> "none"]
    /\ spc = "none"
    /\ running = TRUE
    /\ run_control_temporarily_disabled = FALSE
    /\ stop = FALSE
    /\ timer = "started"
    /\ rx = 0
    /\ rpc = "seed"
    /\ hpc = "idle"
    /\ tasks = [t \in 1..MaxTasks |-> "free"]
    /\ press_disabled = FALSE
    /\ quiet = FALSE

SnapshotNext ==
    \/ RuntimeReset
    \/ RuntimeSeed
    \/ EngineNext
    \/ KeyEnter
    \/ \E state \in SnapshotTexts : UpdateAdd(state)
    \/ \E state \in SnapshotTexts : UpdateEdit(state)

SnapshotSpec == SnapshotInit /\ [][SnapshotNext]_vars

\* ---------------------------------------------- one crawl after another
\* the program as it starts, with a term typed before and a hive that holds
\* values and in which nothing fails
RerunInit ==
    /\ registry \in Registries(RunKeys)
    /\ threads = NumCpus
    /\ hive \in {h \in Hives(registry) : Faults(h) = 0}
    /\ search_terms = {<<"A", "B">>}
    /\ search_term_selected = 0
    /\ search_term_elapsed = 0
    /\ last_call = NoCall
    /\ ShellStart
    /\ UiStart
    /\ Idle("recv")

RerunSpec == RerunInit /\ [][Next]_vars

\* ------------------------------------------------------------ the claims
\* the positions of run_thread inside feed_queue_and_process_values
Holding == {"feed", "notify", "values"}

\* C1: for every finite registry tree and every worker count, under fair
\* scheduling of the workers and of run(), run() eventually returns.
C1_RunReturns == <>(spc = "returned")

\* C1 witness: run() has returned from a crawl in which a worker pushed children
C1_Witness ==
    /\ spc = "returned"
    /\ threads = MaxThreads
    /\ \E k \in 1..Len(registry) : registry[k] # 0

\* C2: when run() fires no_work_left (having seen waiters = N and an empty
\* queue), no worker holds an item, and the queue is empty, so nothing is
\* pushed from then on.
C2_NoWorkInFlight ==
    spc \in {"fire", "returned"} =>
        /\ \A w \in Workers : wpc[w] \notin Holding /\ key_pair[w] = 0
        /\ key_queue = <<>>

\* C2 witness: no_work_left fired after a crawl that expanded a subtree
C2_Witness ==
    /\ spc = "returned"
    /\ threads > 1
    /\ Len(registry) = MaxKeys
    /\ \E k \in 1..Len(registry) : registry[k] # 0

\* C3: in every state after run() has returned, waiters = N and the queue is empty.
C3_ReturnedAllWaiting ==
    spc = "returned" => (threads_waiting_for_work = threads /\ key_queue = <<>>)

\* C4: once no_work_left has been fired, every worker eventually exits its loop.
C4_WorkersExit == (spc = "returned") ~> (\A w \in Workers : wpc[w] = "exited")

\* C5: when stop is set while a crawl runs, the poll of run() that sees it fires
\* no_work_left instead of going back to sleep, so run() returns with work left.
C5_StopObserved == [][(stop /\ spc = "load") => spc' # "sleep"]_vars

\* C6: in every reachable state, stop = true implies running = true.
C6_StopImpliesRunning == stop => running

\* C7: in every state where no crawl is running and no start request is pending
\* (the supervisor waits for a token, none is queued, no key is being handled),
\* run_control_temporarily_disabled is false.
C7_EnabledWhenIdle ==
    (~running /\ rpc = "recv" /\ rx = 0 /\ hpc = "idle") => ~run_control_temporarily_disabled

\* C8: an F5 press read while run_control_temporarily_disabled is true is ignored:
\* no step of its handling changes running, stop, the disabled flag or the timer,
\* and none starts a crawl.
C8_PressIgnoredWhileDisabled ==
    [][(press_disabled /\ hpc # "idle" /\ hpc' # hpc) =>
            /\ running' = running
            /\ stop' = stop
            /\ run_control_temporarily_disabled' = run_control_temporarily_disabled
            /\ timer' = timer
            /\ tasks' = tasks
            /\ rx' = rx]_vars

\* C9: when the handler of an F5 press that found running = false returns, running
\* is true, the timer is (now, None) and exactly one crawl has been requested; the
\* handler of a press that found running = true sets the disabled flag and stop
\* and requests no crawl.
C9_ToggleEffect ==
    [][/\ (hpc \in {"spawn", "start_send"} /\ hpc' = "idle") =>
            /\ running'
            /\ timer' = "started"
            /\ \/ rx' = rx + 1 /\ tasks' = tasks
               \/ rx' = rx /\ Cardinality({t \in 1..MaxTasks : tasks'[t] # tasks[t]}) = 1
       /\ (hpc = "stop_disable" /\ hpc' # hpc) =>
            run_control_temporarily_disabled' /\ tasks' = tasks /\ rx' = rx
       /\ (hpc = "stop_store" /\ hpc' # hpc) =>
            stop' /\ tasks' = tasks /\ rx' = rx]_vars

C11_JoinedBeforeIdle ==
    [][(rpc = "clear_running" /\ running /\ ~running') =>
            \A w \in Workers : wpc[w] = "exited"]_vars

\* the keys of the hive
Keys == 1..Len(registry)

\* the Ok results of the value enumeration of key k
OkValues(k) == {i \in 1..Len(hive.keys[k].values) : hive.keys[k].values[i].ok}

\* the lowercased string contains one of the crawl's terms
TermIn(string) == \E term \in wm_search_terms : Contains(ToLowercase(string), term)

\* the line of the i-th value result of key k
LineOf(k, i) ==
    LET value == hive.keys[k].values[i]
    IN ValueLine(KeyPath(k), ShownName(value.name),
                 AltRegValueToString(value), value.vtype)

\* the i-th value result of key k has a term in its name or its stringified data
ValueHasTerm(k, i) ==
    \/ TermIn(hive.keys[k].values[i].name)
    \/ TermIn(AltRegValueToString(hive.keys[k].values[i]))

\* C12: once the process stop flag is set, the loop of controls, the loop of the
\* renderer and the loop of worker_runtime each end.
C12_LoopsTerminate ==
    process_stop ~> (hpc = "closed" /\ dpc = "done" /\ rpc = "done")

\* C13: the crawl's terms are lowercased, and every string in results is the key
\* line of a key whose lowercased path contains a term, or the value line of a
\* value whose lowercased name or lowercased stringified data contains a term.
C13_OnlyMatchingLines ==
    /\ wm_search_terms = {ToLowercase(term) : term \in search_terms}
    /\ \A line \in results :
          \/ \E k \in Keys : line = KeyLine(KeyPath(k)) /\ TermIn(KeyPath(k))
          \/ \E k \in Keys : \E i \in OkValues(k) : line = LineOf(k, i) /\ ValueHasTerm(k, i)

\* C13 witness: run() has returned with a key line and a value line in results,
\* next to a key whose path holds no term
C13_Witness ==
    /\ spc = "returned"
    /\ \E k \in Keys : KeyLine(KeyPath(k)) \in results
    /\ \E k \in Keys : \E i \in OkValues(k) : LineOf(k, i) \in results
    /\ \E k \in Keys : ~TermIn(KeyPath(k))

\* no open and no enumeration of the hive fails
ErrorFree ==
    /\ hive.root_errors = 0
    /\ \A k \in Keys :
          /\ hive.keys[k].opens
          /\ hive.keys[k].enum_errors = 0
          /\ OkValues(k) = 1..Len(hive.keys[k].values)

\* the key lines and value lines of everything in the hive that holds a term
ExpectedLines ==
    {KeyLine(KeyPath(k)) : k \in {j \in Keys : TermIn(KeyPath(j))}}
        \cup UNION {{LineOf(k, i) : i \in {j \in OkValues(k) : ValueHasTerm(k, j)}} : k \in Keys}

\* C14: when run() has returned from a crawl over a hive without open or
\* enumeration errors, started with empty results, results is exactly the key
\* lines of the keys whose path holds a term and the value lines of the values
\* whose name or data holds a term.
C14_AllMatchesFound == (spc = "returned" /\ ErrorFree) => results = ExpectedLines

\* C14 witness: run() has returned from an error-free hive with a nested key
\* found through case folding and a value line found
C14_Witness ==
    /\ spc = "returned"
    /\ ErrorFree
    /\ \E k \in Keys : /\ registry[k] # 0
                       /\ KeyLine(KeyPath(k)) \in results
                       /\ ToLowercase(KeyPath(k)) # KeyPath(k)
    /\ \E k \in Keys : \E i \in OkValues(k) : LineOf(k, i) \in results

\* C15: at every point of a crawl KEY_COUNT is the number of Ok results of the
\* child-key enumerations so far and VALUE_COUNT the number of Ok results of the
\* value enumerations so far.
C15_CountersCountOks == KEY_COUNT = key_oks /\ VALUE_COUNT = value_oks

\* C16: whenever the term set is non-empty the search-term cursor is in [0, size-1].
C16_CursorInRange ==
    search_terms # {} => search_term_selected \in 0..(Cardinality(search_terms) - 1)

\* C17: an accepted move maps the cursor k to (k-1) mod n for up and (k+1) mod n
\* for down, n being the term count; it changes nothing for n = 0 and n = 1.
C17_CursorMoves ==
    (last_call.op \in {"up", "down"} /\ last_call.accepted) =>
        LET n == Cardinality(last_call.terms)
            k == last_call.selected
        IN search_term_selected =
              IF n <= 1 THEN k
              ELSE IF last_call.op = "up" THEN (k + n - 1) % n ELSE (k + 1) % n

\* C18: after update(Add, t) the term set is old \cup {t}; after
\* update(Edit(o), t) it is (old \ {o}) \cup {t}; no update is discarded.
C18_UpdateApplied ==
    last_call.op = "update" =>
        search_terms = IF last_call.mode = "Add"
                       THEN last_call.terms \cup {last_call.state}
                       ELSE (last_call.terms \ {last_call.original}) \cup {last_call.state}

\* C19: after update(mode, new_text), for Add and for Edit, the cursor points at
\* new_text in the ordered set.
C19_CursorAtNewText ==
    last_call.op = "update" =>
        GetValueAtCurrentIndex = {last_call.state}

\* C20: after a term that was not in the set has been added and then removed,
\* the term set is what it was before the add.
C20_AddThenRemove == last_call.op = "remove_added" => search_terms = last_call.terms

\* C21: an update(Edit(t), t) on the selected term t leaves the set of search
\* terms and the search-term cursor as it found them.
C21_EditToItself ==
    (last_call.op = "update" /\ last_call.mode = "Edit"
        /\ last_call.state = last_call.original) =>
            (search_terms = last_call.terms /\ search_term_selected = last_call.selected)

\* the second of two terms has been edited to itself
C21_Witness ==
    /\ last_call.op = "update"
    /\ last_call.mode = "Edit"
    /\ last_call.accepted
    /\ last_call.state = last_call.original
    /\ last_call.state \in search_terms
    /\ Cardinality(search_terms) = 2
    /\ search_term_selected = 1

\* a call of pane_left() or pane_right() is made in this step
PaneCalled == last_move' # last_move /\ last_move'.op \in {"pane_left", "pane_right"}

\* a call of root_up() or root_down() is made in this step
RootCalled == last_move' # last_move /\ last_move'.op \in {"root_up", "root_down"}

\* a call of up() or down() of the tracker is made in this step
SearchTermCalled == last_call' # last_call /\ last_call'.op \in {"up", "down"}

C23_WrapAround ==
    [][/\ pane_selected' \in 0..2
       /\ root_selected' \in 0..4
       /\ (PaneCalled /\ pane_elapsed >= DEBOUNCE) =>
            pane_selected' = IF last_move'.op = "pane_left"
                             THEN (pane_selected + 2) % 3
                             ELSE (pane_selected + 1) % 3
       /\ (RootCalled /\ root_elapsed >= DEBOUNCE) =>
            root_selected' = IF last_move'.op = "root_up"
                             THEN (root_selected + 4) % 5
                             ELSE (root_selected + 1) % 5]_vars

\* the hive cursor has wrapped upwards from 0 and the pane cursor has then
\* wrapped to the left from 0
C23_Witness ==
    /\ last_move = Move("pane_left", DEBOUNCE, 0)
    /\ pane_selected = 2
    /\ root_selected = 4

\* the two threads that take the locks
LockThreads == {"controls", "renderer"}

\* the locks a thread holds
Held(thread) == {lock \in LockNames : \E holder \in locks[lock] : holder[1] = thread}

\* the place of a lock in the order focus, editor, search-term tracker
LockRank(lock) ==
    CASE lock = "focus" -> 1
      [] lock = "editor" -> 2
      [] lock = "search_term_tracker" -> 3

\* the lock controls is about to take, and how
ControlsRequest ==
    CASE hpc = "focus_lock" -> {<<"focus", "read">>}
      [] hpc \in {"new_lock", "edit_lock", "esc_lock"} -> {<<"focus", "write">>}
      [] hpc = "edit_terms_lock" -> {<<"search_term_tracker", "read">>}
      [] hpc = "char_lock" -> {<<"editor", "write">>}
      [] hpc \in {"enter_first", "enter_second", "enter_third"} ->
            {<<EnterLocks[i], "write">> : i \in {j \in 1..3 : EnterPositions[j] = hpc}}
      [] OTHER -> {}

\* the lock the renderer is about to take, and how
RendererRequest ==
    CASE dpc = "draw" -> {<<"search_term_tracker", "read">>}
      [] dpc = "overlay" -> {<<"focus", "read">>}
      [] dpc = "editor_lock" -> {<<"editor", "read">>}
      [] OTHER -> {}

\* a thread with this request waits
Blocked(request) == \E wanted \in request : ~Free(wanted[1], wanted[2])

\* C24: a thread that takes a lock holds none that comes later in the order
\* focus, editor, search-term tracker (nor that lock itself), and controls and
\* the renderer never both wait for a lock.
C24_LockOrder ==
    /\ [](~(Blocked(ControlsRequest) /\ Blocked(RendererRequest)))
    /\ [][\A thread \in LockThreads : \A lock \in LockNames :
            (lock \notin Held(thread) /\ lock \in Held(thread)') =>
                \A held \in Held(thread) : LockRank(held) < LockRank(lock)]_vars

\* controls holds the three locks of Enter while the renderer waits for the focus
C24_Witness ==
    /\ hpc = "enter_update"
    /\ Held("controls") = LockNames
    /\ dpc = "overlay"
    /\ Blocked(RendererRequest)

\* C25: when opening a work item's subkey fails, the worker records one error,
\* pushes no children, increments no counter, does not re-queue the item, and
\* goes on to take the next item.
C25_FailedOpen ==
    [][\A w \in Workers :
          (wpc[w] = "feed" /\ wpc'[w] # "feed" /\ ~hive.keys[key_pair[w]].opens) =>
              /\ Cardinality(errors') = Cardinality(errors) + 1
              /\ errors' = errors \cup KeyErrors(KeyPath(key_pair[w]))
              /\ key_queue' = key_queue
              /\ \A i \in 1..Len(key_queue') : key_queue'[i] # key_pair[w]
              /\ KEY_COUNT' = KEY_COUNT
              /\ VALUE_COUNT' = VALUE_COUNT
              /\ key_pair'[w] = 0
              /\ wpc'[w] = "pop"]_vars

\* C25 witness: run() has returned from a crawl in which a key with subkeys and
\* values did not open, its error is recorded, and other keys were still counted
C25_Witness ==
    /\ spc = "returned"
    /\ KEY_COUNT > 0
    /\ \E k \in Keys :
          /\ ~hive.keys[k].opens
          /\ KeyErrors(KeyPath(k)) \subseteq errors
          /\ EnumKeys(registry, k) # <<>>

\* the bytes a NUL b NUL c NUL
AbcBytes == <<"a", NUL, "b", NUL, "c", NUL>>

\* C26: a MULTI_SZ or RESOURCE_LIST value is stringified by splitting its bytes
\* on NUL and joining the pieces with ", ", so the bytes a NUL b NUL c NUL
\* stringify to exactly "a, b, c".
C26_MultiSz ==
    (stringified # {} /\ reg_value.vtype \in {"REG_MULTI_SZ", "REG_RESOURCE_LIST"}) =>
        /\ stringified = {Join(Split(reg_value.bytes))}
        /\ reg_value.bytes = AbcBytes => stringified = {<<"a", ",", " ", "b", ",", " ", "c">>}

\* the width in bytes of a fixed-width numeric kind
Width(vtype) ==
    CASE vtype \in {"REG_DWORD", "REG_DWORD_BIG_ENDIAN"} -> 4
      [] vtype = "REG_QWORD" -> 8

\* C27: for each fixed-width numeric kind (DWORD, DWORD_BIG_ENDIAN, QWORD), a
\* value whose byte length is not the kind's width is stringified as
\* "Invalid <KIND>" naming that same kind.
C27_InvalidNamesKind ==
    (/\ stringified # {}
     /\ reg_value.vtype \in {"REG_DWORD", "REG_DWORD_BIG_ENDIAN", "REG_QWORD"}
     /\ Len(reg_value.bytes) # Width(reg_value.vtype)) =>
        stringified = {Invalid(reg_value.vtype)}

\* C28: a value is matched on its original name and stringified data; when it
\* matches and its name is empty, its result line shows "(Default)" in place of
\* the name, and the substituted text itself never causes a match.
C28_DefaultName ==
    [][\A w \in Workers :
          (wpc[w] = "values" /\ wpc'[w] # "values") =>
              LET k == key_pair[w]
                  shown(name) == IF name = <<>>
                                 THEN <<"(", "D", "e", "f", "a", "u", "l", "t", ")">>
                                 ELSE name
              IN results' = results \cup
                    {ValueLine(KeyPath(k), shown(hive.keys[k].values[i].name),
                               AltRegValueToString(hive.keys[k].values[i]),
                               hive.keys[k].values[i].vtype) :
                        i \in {j \in OkValues(k) : ValueHasTerm(k, j)}}]_vars

\* the keys whose values have been enumerated: run() has returned and the key
\* and all keys above it open
RECURSIVE Enumerated(_)
Enumerated(k) ==
    /\ spc = "returned"
    /\ hive.keys[k].opens
    /\ registry[k] = 0 \/ Enumerated(registry[k])

\* C28 witness: after a crawl for the term "D" an enumerated value with the
\* empty name, whose data does not hold the term, has no line in results
C28_Witness ==
    /\ wm_search_terms = {<<"d">>}
    /\ \E k \in Keys : \E i \in OkValues(k) :
          /\ Enumerated(k)
          /\ hive.keys[k].values[i].name = <<>>
          /\ LineOf(k, i) \notin results

\* C29: focus transitions follow the key tables only: SearchMod, Help and
\* ConfirmClose are entered only from Main; from Help and SearchMod the only
\* next focus is Main; from ConfirmClose the only outcomes are Main or process
\* stop; and 'e' enters SearchMod(Edit) only when the pane cursor is SearchTerms
\* and the set is non-empty, with the buffer equal to the selected term.
C29_FocusTransitions ==
    [][/\ (focus' # focus /\ focus' # "Main") => focus = "Main"
       /\ (focus' # focus /\ focus # "Main") => focus' = "Main"
       /\ focus = "ConfirmClose" => (focus' = "Main" \/ (process_stop' /\ hpc' = "break"))
       /\ (focus' # focus /\ focus' = "SearchMod") =>
              \E search_editor \in editor' :
                 /\ editor' = {search_editor}
                 /\ search_editor.mode \in {"Add", "Edit"}
                 /\ search_editor.mode = "Edit" =>
                        /\ pane_selected = 1
                        /\ search_terms # {}
                        /\ search_editor.state \in search_terms
                        /\ Cardinality({other \in search_terms :
                                           StrLess(other, search_editor.state)})
                              = search_term_selected
                        /\ search_editor.original = search_editor.state]_vars

\* C29 witness: 'e' has just entered SearchMod(Edit) on the SearchTerms pane
\* and nothing has been typed yet
C29_Witness ==
    /\ focus = "SearchMod"
    /\ session.left_by = "open"
    /\ ~session.edited
    /\ pane_selected = 1
    /\ \E search_editor \in editor :
          search_editor.mode = "Edit" /\ search_editor.state \in search_terms

\* C30: pressing Esc in SearchMod, after any sequence of character and Backspace
\* edits, returns focus to Main and leaves the search-term set and the
\* search-term cursor exactly as they were when SearchMod was entered.
C30_EscDiscards ==
    [][(focus = "SearchMod" /\ session.left_by = "open" /\ session'.left_by = "Esc") =>
          /\ focus' = "Main"
          /\ search_terms' = session.terms
          /\ search_term_selected' = session.selected]_vars

\* C30 witness: Esc has left a SearchMod on a non-empty set in which the buffer
\* was edited to a text that is not a term
C30_Witness ==
    /\ focus = "Main"
    /\ session.left_by = "Esc"
    /\ session.edited
    /\ session.terms # {}
    /\ search_terms = session.terms
    /\ \E search_editor \in editor : search_editor.state \notin search_terms

\* C31: the renderer never finds the editor absent while drawing the SearchMod
\* overlay: under every interleaving of the renderer's focus read and editor
\* read with the input handler's Enter handling, the editor the renderer reads
\* is present.
C31_EditorPresent ==
    (dpc = "editor_render" /\ drawn_focus = "SearchMod") => editor # {}

\* C32: at most one Crawl Engine instance is active at any time, for every
\* sequence and timing of F5 presses.
C32_OneEngine == Cardinality({t \in 1..MaxTasks : tasks[t] = "crawl"}) <= 1

\* the string, lowercased, contains one of the terms, lowercased
HoldsTermOf(terms, string) ==
    \E term \in terms : Contains(ToLowercase(string), ToLowercase(term))

\* the lines of the hive for the selection and the terms the crawl was started
\* with: none if the hive was not selected
SnapshotLines ==
    IF snapshot.local_machine
    THEN {KeyLine(KeyPath(k)) :
             k \in {j \in Keys : HoldsTermOf(snapshot.search_terms, KeyPath(j))}}
         \cup UNION {{LineOf(k, i) :
                        i \in {j \in OkValues(k) :
                                 \/ HoldsTermOf(snapshot.search_terms, hive.keys[k].values[j].name)
                                 \/ HoldsTermOf(snapshot.search_terms,
                                                AltRegValueToString(hive.keys[k].values[j]))}} :
                      k \in Keys}
    ELSE {}

\* the number of keys of the hive if the crawl was started with it, else none
SnapshotKeys == IF snapshot.local_machine THEN Cardinality(Keys) ELSE 0

\* C33: a running crawl uses the hive list and term set snapshotted when it
\* started: adding or editing search terms or toggling hives while the crawl
\* runs changes neither which keys it traverses nor which strings it matches.
C33_Snapshot ==
    rpc = "run" =>
        /\ wm_search_terms = {ToLowercase(term) : term \in snapshot.search_terms}
        /\ results \subseteq SnapshotLines
        /\ key_oks <= SnapshotKeys
        /\ spc = "returned" => (results = SnapshotLines /\ key_oks = SnapshotKeys)

\* C33 witness: run() has returned with lines in results after the hive was
\* switched off and a term was added that a key of the hive holds
C33_Witness ==
    /\ rpc = "run"
    /\ spc = "returned"
    /\ results # {}
    /\ ~local_machine
    /\ search_terms # snapshot.search_terms
    /\ \E k \in Keys :
          /\ HoldsTermOf(search_terms, KeyPath(k))
          /\ KeyLine(KeyPath(k)) \notin results

Places(k) ==
    Cardinality({i \in 1..Len(key_queue) : key_queue[i] = k})
        + Cardinality({w \in Workers : key_pair[w] = k})

\* C35: every work item placed on the queue (seeded or pushed by a worker) is
\* popped by exactly one worker exactly once, and all of them have been
\* processed by the time the engine returns.
C35_ExactlyOnce ==
    \A k \in Keys :
        /\ popped[k] <= 1
        /\ Places(k) <= 1
        /\ popped[k] = 1 => \A i \in 1..Len(key_queue) : key_queue[i] # k
        /\ spc = "returned" =>
              (popped[k] = 1 /\ \A w \in Workers : key_pair[w] # k /\ wpc[w] \notin Holding)

\* C35 witness: run() has returned from a crawl of two workers over a tree with
\* a nested key, every key popped once
C35_Witness ==
    /\ spc = "returned"
    /\ threads > 1
    /\ Len(registry) = MaxKeys
    /\ \E k \in Keys : registry[k] # 0
    /\ \A k \in Keys : popped[k] = 1

\* C36: with all the seeding done before run(), the queue is empty whenever
\* every worker is counted as waiting, so run() never takes the branch that
\* finds a non-empty queue under a full waiter count.
C36_NoRecovery ==
    /\ AllWaiting => key_queue = <<>>
    /\ spc # "recover"

\* C36 witness: run() has loaded a full waiter count and found the queue empty
\* after two workers crawled a nested tree fed by the workers themselves
C36_Witness ==
    /\ spc = "fire"
    /\ AllWaiting
    /\ threads > 1
    /\ \E k \in Keys : registry[k] # 0 /\ popped[k] = 1

\* key k is put on the queue: a top-level key, or a subkey of a queued key
\* that opens
RECURSIVE Queued(_)
Queued(k) ==
    registry[k] = 0 \/ (Queued(registry[k]) /\ hive.keys[registry[k]].opens)

\* the keys a crawl of the hive opens
OpenedKeys == {k \in Keys : Queued(k) /\ hive.keys[k].opens}

\* the results of enum_keys() on the opened keys among the first n keys
RECURSIVE SubkeyResults(_)
SubkeyResults(n) ==
    IF n = 0 THEN 0
    ELSE SubkeyResults(n - 1)
            + (IF n \in OpenedKeys
               THEN Len(EnumKeys(registry, n)) + hive.keys[n].enum_errors
               ELSE 0)

\* the results of enum_values() on the opened keys among the first n keys
RECURSIVE ValueResults(_)
ValueResults(n) ==
    IF n = 0 THEN 0
    ELSE ValueResults(n - 1)
            + (IF n \in OpenedKeys THEN Len(hive.keys[n].values) ELSE 0)

\* the lines of the hive that hold a term: key lines of the queued keys, value
\* lines of the Ok values of the opened keys
LinesOfHive ==
    {KeyLine(KeyPath(k)) : k \in {j \in Keys : Queued(j) /\ TermIn(KeyPath(j))}}
        \cup UNION {{LineOf(k, i) : i \in {j \in OkValues(k) : ValueHasTerm(k, j)}} :
                        k \in OpenedKeys}

\* C37: for a fixed registry and term set, results, keys_seen and values_seen
\* at the moment the engine returns are a function of the registry and the terms
\* alone: the same for every interleaving of the workers and every worker count.
C37_Deterministic ==
    spc = "returned" =>
        /\ results = LinesOfHive
        /\ KEY_COUNT = Len(EnumKeys(registry, 0)) + hive.root_errors
                            + SubkeyResults(Len(registry))
        /\ VALUE_COUNT = ValueResults(Len(registry))

\* C37 witness: run() has returned on a one-worker machine from a hive with a
\* key that does not open above a subkey that is never queued, a line found
C37_Witness ==
    /\ spc = "returned"
    /\ threads = 1
    /\ \E k \in Keys : ~Queued(k)
    /\ results # {}
    /\ KEY_COUNT = Len(registry) - 1

\* C38: no operation removes an element from results: a new crawl does not
\* clear it, and the lines an earlier crawl found stay in results during and
\* after every later crawl.
C38_ResultsKept == [][results \subseteq results']_vars

\* C38 witness: a later crawl is about to spawn its workers with the lines of
\* the earlier crawl in results
C38_Witness ==
    /\ rpc = "run"
    /\ spc = "spawn"
    /\ results # {}

\* C39: a stop request never carries over to the next crawl: when F5 starts a
\* crawl (toggle_running has found running = false), stop is false and
\* run_control_temporarily_disabled is not left true by the F5 press of the
\* previous crawl.
C39_NoCarryOver ==
    hpc = "start" => (~stop /\ ~run_control_temporarily_disabled)

\* C40: an empty search term is accepted and stored by update(): after
\* update(Add, "") and after update(Edit(o), "") the empty string is in
\* search_terms (a crawl with the empty string among its terms then matches
\* every string it tests).
C40_EmptyTermStored ==
    (last_call.op = "update" /\ last_call.state = <<>>) => <<>> \in search_terms
====
